---------------------------- MODULE Spec2Model ----------------------------
(***************************************************************************)
(* A model of the rust-lox-vm interpreter: the open-addressed HashTable,   *)
(* the Scanner, the single-pass Parser/Compiler, the mark-sweep Gc and the *)
(* stack VM.  Pure functions of the program are operators, the program's   *)
(* operations are actions over the variables below.                        *)
(***************************************************************************)
EXTENDS Integers, Sequences, FiniteSets, TLC

VARIABLES
    ht,     \* the HashTable under test with its abstract map and last result
    scan,   \* the Scanner under test and the items it has yielded so far
    parser, \* the Parser of a compile call and the call's result
    vm      \* the VM with its heap, across the interpret calls made on it

vars == <<ht, scan, parser, vm>>

\* what each specification leaves alone
notHt == <<scan, parser, vm>>
notScan == <<ht, parser, vm>>
notParser == <<ht, scan, vm>>
notVm == <<ht, scan, parser>>

\* the value of a variable the specification at hand does not use
Idle == [status |-> "idle"]

(***************************************************************************)
(* A call of a function of the program: Call(f, a) is the function named f *)
(* applied to the argument values a, which are evaluated before the call   *)
(* as the program evaluates them.  f_body is the body of the function f.   *)
(***************************************************************************)
RECURSIVE Call(_, _)

IsNaN(v) == Call("IsNaN", <<v>>)
Value_eq(a, b) == Call("Value_eq", <<a, b>>)
is_falsey(v) == Call("is_falsey", <<v>>)
XorBit(a, b, k) == Call("XorBit", <<a, b, k>>)
XorByte(a, b) == Call("XorByte", <<a, b>>)
fnv_step(h, b) == Call("fnv_step", <<h, b>>)
hash_loop(h, bytes, i) == Call("hash_loop", <<h, bytes, i>>)
hash_str(bytes) == Call("hash_str", <<bytes>>)
LoxString(bytes) == Call("LoxString", <<bytes>>)
Value_hash(hp, v) == Call("Value_hash", <<hp, v>>)
HashMod(h, capacity) == Call("HashMod", <<h, capacity>>)
is_tombstone(e) == Call("is_tombstone", <<e>>)
make_tombstone(e) == Call("make_tombstone", <<e>>)
grow_capacity(capacity) == Call("grow_capacity", <<capacity>>)
find_entry(hp, entries, capacity, key) == Call("find_entry", <<hp, entries, capacity, key>>)
adjust_capacity_copy(hp, t, old, first, last) == Call("adjust_capacity_copy", <<hp, t, old, first, last>>)
adjust_capacity(hp, t, new_capacity) == Call("adjust_capacity", <<hp, t, new_capacity>>)
insert_entry(hp, t1, key, value) == Call("insert_entry", <<hp, t1, key, value>>)
over_load(count, capacity) == Call("over_load", <<count, capacity>>)
HashTable_insert(hp, t, key, value) == Call("HashTable_insert", <<hp, t, key, value>>)
HashTable_get(hp, t, key) == Call("HashTable_get", <<hp, t, key>>)
HashTable_delete(hp, t, key) == Call("HashTable_delete", <<hp, t, key>>)
add_all_loop(hp, t, from, first, last) == Call("add_all_loop", <<hp, t, from, first, last>>)
HashTable_add_all(hp, t, from) == Call("HashTable_add_all", <<hp, t, from>>)
find_string(hp, t, bytes) == Call("find_string", <<hp, t, bytes>>)
Scanner_new(src) == Call("Scanner_new", <<src>>)
inner_peek(src, at) == Call("inner_peek", <<src, at>>)
peek_next(src, at) == Call("peek_next", <<src, at>>)
Slice(src, from, to) == Call("Slice", <<src, from, to>>)
consume_comment(src, at) == Call("consume_comment", <<src, at>>)
skip_whitespace_and_comments(src, at) == Call("skip_whitespace_and_comments", <<src, at>>)
advance_while(src, at, class) == Call("advance_while", <<src, at, class>>)
read_string_loop(src, at) == Call("read_string_loop", <<src, at>>)
read_number_end(src, at) == Call("read_number_end", <<src, at>>)
Gcd(a, b) == Call("Gcd", <<a, b>>)
Abs(i) == Call("Abs", <<i>>)
Number(n, d) == Call("Number", <<n, d>>)
DigitValue(c) == Call("DigitValue", <<c>>)
parse_f64_loop(text, i, n, d, in_fraction) == Call("parse_f64_loop", <<text, i, n, d, in_fraction>>)
parse_f64(text) == Call("parse_f64", <<text>>)
identifier_type(text) == Call("identifier_type", <<text>>)
matches(src, at, expected) == Call("matches", <<src, at, expected>>)
Scanner_next(sc) == Call("Scanner_next", <<sc>>)
Scanner_peek(sc) == Call("Scanner_peek", <<sc>>)
Bytes(text) == Call("Bytes", <<text>>)
add_to_gc(gc, obj) == Call("add_to_gc", <<gc, obj>>)
alloc_string(gc, bytes) == Call("alloc_string", <<gc, bytes>>)
is_prefix(type) == Call("is_prefix", <<type>>)
infix_precedence(type) == Call("infix_precedence", <<type>>)
Compiler_new(function_type, function_name) == Call("Compiler_new", <<function_type, function_name>>)
jump_length(code_len, position) == Call("jump_length", <<code_len, position>>)
resolve_local(compiler, name) == Call("resolve_local", <<compiler, name>>)
add_upvalue(cs, lvl, index, is_local) == Call("add_upvalue", <<cs, lvl, index, is_local>>)
resolve_upvalue(cs, lvl, name) == Call("resolve_upvalue", <<cs, lvl, name>>)
has_variable_in_current_scope(compiler, name) == Call("has_variable_in_current_scope", <<compiler, name>>)
mark_latest_initialized(compiler) == Call("mark_latest_initialized", <<compiler>>)
end_scope_loop(compiler, location) == Call("end_scope_loop", <<compiler, location>>)
end_scope(compiler, location) == Call("end_scope", <<compiler, location>>)
Parser_new(src, gc) == Call("Parser_new", <<src, gc>>)
Fail(p, msg) == Call("Fail", <<p, msg>>)
write(p, op, location) == Call("write", <<p, op, location>>)
add_constant(p, value) == Call("add_constant", <<p, value>>)
identifier_constant(p, name) == Call("identifier_constant", <<p, name>>)
advance(p) == Call("advance", <<p>>)
match_token(p, types) == Call("match_token", <<p, types>>)
consume(p, types, err_create) == Call("consume", <<p, types, err_create>>)
synchronize(p) == Call("synchronize", <<p>>)
emit_jump(p, op, location) == Call("emit_jump", <<p, op, location>>)
patch_jump(p, op, position) == Call("patch_jump", <<p, op, position>>)
emit_loop(p, loop_start, location) == Call("emit_loop", <<p, loop_start, location>>)
expression(p) == Call("expression", <<p>>)
argument_list_loop(p, arg_count) == Call("argument_list_loop", <<p, arg_count>>)
argument_list(p) == Call("argument_list", <<p>>)
named_variable(p, name, can_assign, location) == Call("named_variable", <<p, name, can_assign, location>>)
prefix(p, token, can_assign) == Call("prefix", <<p, token, can_assign>>)
infix(p, token, can_assign) == Call("infix", <<p, token, can_assign>>)
infix_loop(p, precedence, can_assign) == Call("infix_loop", <<p, precedence, can_assign>>)
parse_precedence(p, precedence) == Call("parse_precedence", <<p, precedence>>)
on_current(p, compiler) == Call("on_current", <<p, compiler>>)
begin_scope(p) == Call("begin_scope", <<p>>)
declare_variable(p, name, location) == Call("declare_variable", <<p, name, location>>)
define_variable(p, global_idx, location) == Call("define_variable", <<p, global_idx, location>>)
parse_variable(p) == Call("parse_variable", <<p>>)
var_declaration(p, location) == Call("var_declaration", <<p, location>>)
end_compiler(p, location) == Call("end_compiler", <<p, location>>)
block(p) == Call("block", <<p>>)
parameters(p, left_paren_location) == Call("parameters", <<p, left_paren_location>>)
function(p, function_type) == Call("function", <<p, function_type>>)
fun_declaration(p, location) == Call("fun_declaration", <<p, location>>)
class_declaration(p, location) == Call("class_declaration", <<p, location>>)
statement(p) == Call("statement", <<p>>)
declaration(p) == Call("declaration", <<p>>)
eof_location(src) == Call("eof_location", <<src>>)
Parser_compile(src, gc) == Call("Parser_compile", <<src, gc>>)
deref(v, i) == Call("deref", <<v, i>>)
assign(v, i, value) == Call("assign", <<v, i, value>>)
push(v, value) == Call("push", <<v, value>>)
pop(v) == Call("pop", <<v>>)
VM_peek(v, distance) == Call("VM_peek", <<v, distance>>)
current_frame(v) == Call("current_frame", <<v>>)
bail(v, msg) == Call("bail", <<v, msg>>)
mark(gc, value) == Call("mark", <<gc, value>>)
mark_each(gc, values) == Call("mark_each", <<gc, values>>)
HashTable_mark(gc, t) == Call("HashTable_mark", <<gc, t>>)
remove_white_loop(hp, t, first, last) == Call("remove_white_loop", <<hp, t, first, last>>)
blacken(gc) == Call("blacken", <<gc>>)
trace_rounds(gc, rounds) == Call("trace_rounds", <<gc, rounds>>)
trace_references(gc) == Call("trace_references", <<gc>>)
sweep(gc) == Call("sweep", <<gc>>)
upvalue_list(hp, upvalue) == Call("upvalue_list", <<hp, upvalue>>)
mark_roots(v) == Call("mark_roots", <<v>>)
collect_garbage(v) == Call("collect_garbage", <<v>>)
alloc(v, object) == Call("alloc", <<v, object>>)
VM_call(v, arg_count, obj) == Call("VM_call", <<v, arg_count, obj>>)
call_value(v, callee, arg_count, now) == Call("call_value", <<v, callee, arg_count, now>>)
capture_upvalue(v, local) == Call("capture_upvalue", <<v, local>>)
handle_closure(v, index) == Call("handle_closure", <<v, index>>)
f64(op, a, b) == Call("f64", <<op, a, b>>)
binary_operator(v, op) == Call("binary_operator", <<v, op>>)
plus_operator(v) == Call("plus_operator", <<v>>)
is_kind(v, value, kind) == Call("is_kind", <<v, value, kind>>)
bind_method(v, class, name) == Call("bind_method", <<v, class, name>>)
invoke_from_class(v, class, name, arg_count) == Call("invoke_from_class", <<v, class, name, arg_count>>)
invoke(v, name, arg_count, now) == Call("invoke", <<v, name, arg_count, now>>)
get_property(v, index) == Call("get_property", <<v, index>>)
set_property(v, index) == Call("set_property", <<v, index>>)
jump_ip(op, ip, offset, overflow_checks) == Call("jump_ip", <<op, ip, offset, overflow_checks>>)
run(v, now) == Call("run", <<v, now>>)
assemble_constants(st, cs) == Call("assemble_constants", <<st, cs>>)
assemble(gc, f) == Call("assemble", <<gc, f>>)
define_native(v, name, native) == Call("define_native", <<v, name, native>>)
VM_new(stress_gc, overflow_checks) == Call("VM_new", <<stress_gc, overflow_checks>>)
interpret(v, program, now) == Call("interpret", <<v, program, now>>)

\* e, the values of steps computed first and in their order: the statements
\* of a function body run one after the other
InOrder(steps, e) == IF Len(steps) >= 0 THEN e ELSE e

(***************************************************************************)
(* Bounds of the model                                                     *)
(***************************************************************************)
\* number of distinct keys offered to the HashTable operations
NumKeys == 6
\* longest source text offered to the Scanner
MaxSourceLen == 3
\* longest program text offered to Parser::compile
MaxProgramLen == 4
\* stack cells the model keeps in front of the stack base
StackBelow == 2
\* interpret calls made on one VM
MaxInterprets == 2
\* frames the model lets the VM write behind the FRAMES_MAX frames
FramesBeyond == 2
\* longest arithmetic expression compiled and run
MaxExprLen == 5

(***************************************************************************)
(* Value (types/value.rs).  A Value is a record [t, n, d]:                 *)
(*   Nil          t = "nil"                                                *)
(*   Boolean(b)   t = "bool", n = 1 for true and 0 for false               *)
(*   Number(x)    t = "num",  x = n/d in lowest terms with d > 0; d = 0    *)
(*                encodes the IEEE specials: n = 1 is +inf, n = -1 is      *)
(*                -inf and n = 0 is NaN                                    *)
(*   Obj(r)       t = "obj",  n = r, the address of the heap node          *)
(* Option<Value>::None (an Entry without key) is NoKey.                    *)
(***************************************************************************)
Nil == [t |-> "nil", n |-> 0, d |-> 1]
Bool(b) == [t |-> "bool", n |-> IF b THEN 1 ELSE 0, d |-> 1]
Num(i) == [t |-> "num", n |-> i, d |-> 1]
Obj(r) == [t |-> "obj", n |-> r, d |-> 1]
NoKey == [t |-> "none", n |-> 0, d |-> 1]

IsNaN_body(v) == v.t = "num" /\ v.d = 0 /\ v.n = 0

\* #[derive(PartialEq)] on Value: f64 equality makes NaN unequal to itself,
\* ObjRef equality is pointer equality.
Value_eq_body(a, b) == a = b /\ ~IsNaN(a)

is_falsey_body(v) == v = Nil \/ v = Bool(FALSE)

(***************************************************************************)
(* hash_str (types/string.rs): 32-bit FNV-1a.  A Hash is kept as two       *)
(* 16-bit limbs [hi, lo]; PRIME = 16777619 = 256 * 2^16 + 403, so          *)
(* (hi * 2^16 + lo) * PRIME mod 2^32 has                                   *)
(*    lo' = (lo * 403) mod 2^16                                            *)
(*    hi' = (hi * 403 + lo * 256 + (lo * 403) div 2^16) mod 2^16.          *)
(***************************************************************************)
\* bit k (a power of two) of a ^ b
XorBit_body(a, b, k) == (((a \div k) + (b \div k)) % 2) * k

\* a ^ b for two bytes
XorByte_body(a, b) ==
    ((XorBit(a, b, 1) + XorBit(a, b, 2)) + (XorBit(a, b, 4) + XorBit(a, b, 8)))
        + ((XorBit(a, b, 16) + XorBit(a, b, 32)) + (XorBit(a, b, 64) + XorBit(a, b, 128)))

Hash(hi, lo) == [hi |-> hi, lo |-> lo]

\* one round of the loop: hash ^= b; hash = hash.wrapping_mul(PRIME)
fnv_step_body(h, b) ==
    LET lo1 == (h.lo - (h.lo % 256)) + XorByte(h.lo % 256, b)
        p   == lo1 * 403
    IN  Hash((h.hi * 403 + lo1 * 256 + (p \div 65536)) % 65536, p % 65536)

hash_loop_body(h, bytes, i) ==
    IF i > Len(bytes) THEN h ELSE hash_loop(fnv_step(h, bytes[i]), bytes, i + 1)

\* the hash after the first round of the loop, for every first byte: the
\* offset basis is 2166136261 = 33052 * 2^16 + 40389
FirstRound == [b \in 0..255 |-> fnv_step(Hash(33052, 40389), b)]

hash_str_body(bytes) ==
    IF Len(bytes) = 0 THEN Hash(33052, 40389)
    ELSE IF Len(bytes) = 1 THEN FirstRound[bytes[1]]
    ELSE hash_loop(FirstRound[bytes[1]], bytes, 2)

\* LoxString::string: the String object with its hash
LoxString_body(bytes) == [kind |-> "String", string |-> bytes, hash |-> hash_str(bytes)]

\* Hashable for Value / Obj.  hp is the heap (address -> object).  Only the
\* variants the program uses as table keys are modelled: strings (the hash
\* LoxString::string computed when the string was made), booleans and nil.
Value_hash_body(hp, v) ==
    CASE v.t = "bool" -> IF v.n = 1 THEN Hash(0, 3) ELSE Hash(0, 5)
      [] v.t = "nil" -> Hash(0, 7)
      [] v.t = "obj" /\ hp[v.n].kind = "String" -> hp[v.n].hash

\* hash.0 % capacity.  Every capacity of a table is 8 * 2^k, which divides
\* 2^16, so the remainder is decided by the low limb.
HashMod_body(h, capacity) == h.lo % capacity

(***************************************************************************)
(* HashTable (datastructures/hash_table.rs).  A table is a record          *)
(* [count, capacity, entries]; entries[i + 1] is the Entry at index i.     *)
(***************************************************************************)
Entry(k, v) == [key |-> k, value |-> v]

is_tombstone_body(e) == e.key = NoKey /\ e.value = Bool(TRUE)

make_tombstone_body(e) == Entry(NoKey, Bool(TRUE))

HashTable_new == [count |-> 0, capacity |-> 0, entries |-> <<>>]

grow_capacity_body(capacity) == IF capacity < 8 THEN 8 ELSE capacity * 2

\* find_entry_loop with a plausible slip: a tombstone ends the probe like a
\* never-used entry does
RECURSIVE find_entry_loop_tombstone_ends(_, _, _, _, _)
find_entry_loop_tombstone_ends(entries, capacity, key, index, tombstone) ==
    LET entry == entries[index + 1] IN
    IF entry.key # NoKey
    THEN IF Value_eq(entry.key, key)
         THEN index
         ELSE find_entry_loop_tombstone_ends(entries, capacity, key,
                                             (index + 1) % capacity, tombstone)
    ELSE index

\* the probe loop of find_entry; tombstone = -1 is Option::None.
\* The result is the index of the entry returned.
RECURSIVE find_entry_loop(_, _, _, _, _)
find_entry_loop(entries, capacity, key, index, tombstone) ==
    LET entry == entries[index + 1] IN
    IF entry.key # NoKey
    THEN IF Value_eq(entry.key, key)
         THEN index
         ELSE find_entry_loop(entries, capacity, key, (index + 1) % capacity, tombstone)
    ELSE IF is_tombstone(entry)
         THEN find_entry_loop(entries, capacity, key, (index + 1) % capacity,
                              IF tombstone = -1 THEN index ELSE tombstone)
         ELSE IF tombstone # -1 THEN tombstone ELSE index

find_entry_body(hp, entries, capacity, key) ==
    find_entry_loop(entries, capacity, key, HashMod(Value_hash(hp, key), capacity), -1)


\* the loop of adjust_capacity over the old entries i = first .. last, in
\* their order
adjust_capacity_copy_body(hp, t, old, first, last) ==
    CASE first > last -> t
      [] first = last ->
            IF old[first + 1].key # NoKey
            THEN HashTable_insert(hp, t, old[first + 1].key, old[first + 1].value).table
            ELSE t
      [] OTHER -> \* the first half in order, then the second half
            adjust_capacity_copy(hp,
                adjust_capacity_copy(hp, t, old, first, (first + last) \div 2),
                old, (first + last) \div 2 + 1, last)

\* adjust_capacity carrying the tombstones over: the new array starts with a
\* tombstone at the index of every old one, each counted
adjust_capacity_with_tombstones(hp, t, new_capacity) ==
    adjust_capacity_copy(hp,
        [count |-> Cardinality({i \in 1..Len(t.entries) : is_tombstone(t.entries[i])}),
         capacity |-> new_capacity,
         entries |-> SubSeq([i \in 1..new_capacity |->
                                IF i <= Len(t.entries) /\ is_tombstone(t.entries[i])
                                THEN t.entries[i] ELSE Entry(NoKey, Nil)],
                            1, new_capacity)],
        t.entries, 0, Len(t.entries) - 1)

adjust_capacity_body(hp, t, new_capacity) ==
    adjust_capacity_copy(hp,
        [count |-> 0, capacity |-> new_capacity,
         entries |-> SubSeq([i \in 1..new_capacity |-> Entry(NoKey, Nil)],
                            1, new_capacity)],
        t.entries, 0, Len(t.entries) - 1)

\* insert_entry counting every new key, one written over a tombstone too
insert_entry_counting_reuse(hp, t1, key, value) ==
    LET index == find_entry(hp, t1.entries, t1.capacity, key)
        entry == t1.entries[index + 1]
        is_new_key == entry.key = NoKey
    IN  [table |-> [t1 EXCEPT !.count = IF is_new_key THEN @ + 1 ELSE @,
                              !.entries[index + 1] = Entry(key, value)],
         ret |-> is_new_key]

\* the tail of insert, after the growth check: the table is t1
insert_entry_body(hp, t1, key, value) ==
    LET index == find_entry(hp, t1.entries, t1.capacity, key)
        entry == t1.entries[index + 1]
        is_new_key == entry.key = NoKey
    IN  [table |-> [t1 EXCEPT !.count = IF is_new_key /\ ~is_tombstone(entry)
                                         THEN @ + 1 ELSE @,
                              !.entries[index + 1] = Entry(key, value)],
         ret |-> is_new_key]

\* (count + 1) as f32 > MAX_LOAD * capacity as f32, with MAX_LOAD = 0.75
over_load_body(count, capacity) == 4 * (count + 1) > 3 * capacity

\* insert returns [table, ret]: the table afterwards and the bool returned
HashTable_insert_body(hp, t, key, value) ==
    insert_entry(hp,
        IF over_load(t.count, t.capacity)
        THEN adjust_capacity(hp, t, grow_capacity(t.capacity))
        ELSE t,
        key, value)

\* get returns the value or NoKey for Option::None
HashTable_get_body(hp, t, key) ==
    IF t.count = 0 THEN NoKey
    ELSE LET entry == t.entries[find_entry(hp, t.entries, t.capacity, key) + 1]
         IN  IF entry.key # NoKey THEN entry.value ELSE NoKey

\* delete that leaves the entry of the key in the table
HashTable_delete_nothing(hp, t, key) == [table |-> t, ret |-> FALSE]

HashTable_delete_body(hp, t, key) ==
    IF t.capacity = 0 THEN [table |-> t, ret |-> FALSE]
    ELSE LET index == find_entry(hp, t.entries, t.capacity, key) IN
         IF t.entries[index + 1].key = NoKey
         THEN [table |-> t, ret |-> FALSE]
         ELSE [table |-> [t EXCEPT !.entries[index + 1] = make_tombstone(@)],
               ret |-> TRUE]

\* the loop of add_all over the entries i = first .. last of from, in their
\* order
add_all_loop_body(hp, t, from, first, last) ==
    CASE first > last -> t
      [] first = last ->
            IF from.entries[first + 1].key # NoKey
            THEN HashTable_insert(hp, t, from.entries[first + 1].key,
                                  from.entries[first + 1].value).table
            ELSE t
      [] OTHER -> \* the first half in order, then the second half
            add_all_loop(hp, add_all_loop(hp, t, from, first, (first + last) \div 2),
                         from, (first + last) \div 2 + 1, last)

\* add_all that copies nothing
HashTable_add_all_nothing(hp, t, from) ==
    t

HashTable_add_all_body(hp, t, from) == add_all_loop(hp, t, from, 0, from.capacity - 1)

\* find_string_loop as it would be if a tombstone ended the probe like an
\* empty entry
RECURSIVE find_string_loop_tombstone_ends(_, _, _, _)
find_string_loop_tombstone_ends(hp, t, bytes, index) ==
    LET entry == t.entries[index + 1] IN
    IF entry.key # NoKey /\ entry.key.t = "obj"
    THEN IF hp[entry.key.n].kind = "String" /\ hp[entry.key.n].string = bytes
         THEN entry.key.n
         ELSE find_string_loop_tombstone_ends(hp, t, bytes, (index + 1) % t.capacity)
    ELSE 0

\* find_string: the address of the interned String with these bytes, 0 for None
RECURSIVE find_string_loop(_, _, _, _)
find_string_loop(hp, t, bytes, index) ==
    LET entry == t.entries[index + 1] IN
    IF entry.key # NoKey /\ entry.key.t = "obj"
    THEN IF hp[entry.key.n].kind = "String" /\ hp[entry.key.n].string = bytes
         THEN entry.key.n
         ELSE find_string_loop(hp, t, bytes, (index + 1) % t.capacity)
    ELSE IF ~is_tombstone(entry)
         THEN 0
         ELSE find_string_loop(hp, t, bytes, (index + 1) % t.capacity)

find_string_body(hp, t, bytes) ==
    IF t.count = 0 THEN 0
    ELSE find_string_loop(hp, t, bytes, HashMod(hash_str(bytes), t.capacity))

(***************************************************************************)
(* The HashTable under test (hash_table.rs, mod tests): string keys as the *)
(* tests allocate them, checked against an abstract map.                   *)
(***************************************************************************)
\* the byte contents of the key strings: "3", "12", "23" share hash % 8 = 2
\* and "key5" has hash % 8 = 3 (tests::handle_tombstones_correctly); then
\* "5", "7", "b", "c"
KeyBytes ==
    << <<51>>, <<49, 50>>, <<50, 51>>, <<107, 101, 121, 53>>,
       <<53>>, <<55>>, <<98>>, <<99>> >>

\* a heap holding the key strings at the addresses 1 .. Len(KeyBytes)
KeyHeap == [r \in 1..Len(KeyBytes) |-> LoxString(KeyBytes[r])]

Keys == 1..NumKeys
TableValues == {Num(1), Bool(TRUE)}

RECURSIVE BuildTable(_, _)
\* the table after a sequence of insert (value # NoKey) and delete calls
BuildTable(ops, i) ==
    IF i = 0 THEN HashTable_new
    ELSE LET t == BuildTable(ops, i - 1) IN
         IF ops[i].value = NoKey
         THEN HashTable_delete(KeyHeap, t, Obj(ops[i].key)).table
         ELSE HashTable_insert(KeyHeap, t, Obj(ops[i].key), ops[i].value).table

\* the tables offered to add_all as `from`: one with a tombstone, one without
FromTables ==
    { BuildTable(<< [key |-> 1, value |-> Num(1)], [key |-> 2, value |-> Bool(TRUE)],
                    [key |-> 1, value |-> NoKey] >>, 3),
      BuildTable(<< [key |-> 3, value |-> Bool(TRUE)], [key |-> 4, value |-> Num(1)] >>, 2) }

\* ht.ok: every call so far returned what the abstract map ht.amap asks for
HtInit ==
    /\ ht = [table |-> HashTable_new, amap |-> [k \in Keys |-> NoKey], ok |-> TRUE]
    /\ scan = Idle
    /\ parser = Idle
    /\ vm = Idle

HtInsert(k, v) ==
    /\ LET r == HashTable_insert(KeyHeap, ht.table, Obj(k), v) IN
       ht' = [table |-> r.table, amap |-> [ht.amap EXCEPT ![k] = v],
              ok |-> ht.ok /\ (r.ret <=> ht.amap[k] = NoKey)]
    /\ UNCHANGED notHt

HtGet(k) ==
    /\ ht' = [ht EXCEPT !.ok = @ /\ HashTable_get(KeyHeap, ht.table, Obj(k)) = ht.amap[k]]
    /\ UNCHANGED notHt

HtDelete(k) ==
    /\ LET r == HashTable_delete(KeyHeap, ht.table, Obj(k)) IN
       ht' = [table |-> r.table, amap |-> [ht.amap EXCEPT ![k] = NoKey],
              ok |-> ht.ok /\ (r.ret <=> ht.amap[k] # NoKey)]
    /\ UNCHANGED notHt

HtAddAll(from) ==
    /\ ht' = [table |-> HashTable_add_all(KeyHeap, ht.table, from),
              amap |-> [k \in Keys |->
                           LET v == HashTable_get(KeyHeap, from, Obj(k))
                           IN  IF v # NoKey THEN v ELSE ht.amap[k]],
              ok |-> ht.ok]
    /\ UNCHANGED notHt

HtNext ==
    \/ \E k \in Keys, v \in TableValues : HtInsert(k, v)
    \/ \E k \in Keys : HtGet(k)
    \/ \E k \in Keys : HtDelete(k)
    \/ \E from \in FromTables : HtAddAll(from)

SpecHashTable == HtInit /\ [][HtNext]_vars

\* C4: over any sequence of insert, get, delete and add_all calls the table
\* behaves like the abstract map: every bool returned by insert says whether
\* the key was absent, every bool returned by delete whether it was present,
\* and get of every key yields the value of the latest insert not followed
\* by a delete, None otherwise.
C4_TableIsMap ==
    /\ ht.ok
    /\ \A k \in Keys : HashTable_get(KeyHeap, ht.table, Obj(k)) = ht.amap[k]

\* a grown table that holds a tombstone in front of a live key whose probe
\* sequence passes over it
C4_Witness ==
    /\ ht.table.capacity = 16
    /\ \E i \in 1..15 :
          /\ is_tombstone(ht.table.entries[i])
          /\ ht.table.entries[i + 1].key # NoKey
          /\ HashMod(Value_hash(KeyHeap, ht.table.entries[i + 1].key), 16) < i

(***************************************************************************)
(* Scanner (scanner.rs).  The source is a sequence of one-character        *)
(* strings; a scanner is [src, start, at, peeked] (rest is the suffix of   *)
(* src from at).  What next() yields is an item [k, type, text, num, loc]: *)
(*   k = "none"   Option::None, the end of the input                       *)
(*   k = "ok"     a Token of TokenType type; text is the identifier, the   *)
(*                string contents or the number's lexeme, num the Number   *)
(*   k = "err"    a ScannerError of kind type                              *)
(*   k = "panic"  the call panicked (an expect on None)                    *)
(* and "nopeek" stands for peeked = None.                                  *)
(***************************************************************************)
Item(k, type, text, num, start, end) ==
    [k |-> k, type |-> type, text |-> text, num |-> num, loc |-> <<start, end>>]

NoItem == Item("none", "", <<>>, Nil, 0, 0)
NoPeek == Item("nopeek", "", <<>>, Nil, 0, 0)
PanicItem == Item("panic", "", <<>>, Nil, 0, 0)

Scanner_new_body(src) == [src |-> src, start |-> 0, at |-> 0, peeked |-> NoPeek]

Digits == {"0", "1", "2", "3", "4", "5", "6", "7", "8", "9"}
Alphabetic ==
    {"a", "b", "c", "d", "e", "f", "g", "h", "i", "j", "k", "l", "m", "n", "o", "p",
     "q", "r", "s", "t", "u", "v", "w", "x", "y", "z",
     "A", "B", "C", "D", "E", "F", "G", "H", "I", "J", "K", "L", "M", "N", "O", "P",
     "Q", "R", "S", "T", "U", "V", "W", "X", "Y", "Z"}

\* inner_peek / peek_next: the character at offset at (+ 1), "" for None
inner_peek_body(src, at) == IF at < Len(src) THEN src[at + 1] ELSE ""
peek_next_body(src, at) == IF at + 1 < Len(src) THEN src[at + 2] ELSE ""

\* the source text src[from .. to), as the slices of the code take it
Slice_body(src, from, to) == SubSeq(src, from + 1, to)

\* consume_comment: the offset of the newline ending the comment, or the end
consume_comment_body(src, at) ==
    IF inner_peek(src, at) = "" \/ inner_peek(src, at) = "\n" THEN at
    ELSE consume_comment(src, at + 1)

\* skip_whitespace_and_comments: the offset it leaves the scanner at
skip_whitespace_and_comments_body(src, at) ==
    LET peek == inner_peek(src, at) IN
    IF peek \in {" ", "\r", "\t", "\n"}
    THEN skip_whitespace_and_comments(src, at + 1)
    ELSE IF peek = "/" /\ peek_next(src, at) = "/"
         THEN skip_whitespace_and_comments(src, consume_comment(src, at))
         ELSE at

\* the offset after the longest run of characters of class from at on
advance_while_body(src, at, class) ==
    IF inner_peek(src, at) \in class THEN advance_while(src, at + 1, class) ELSE at

\* read_string: the offset of the closing quote, -1 when the input ends first
read_string_loop_body(src, at) ==
    IF inner_peek(src, at) = "\"" THEN at
    ELSE IF inner_peek(src, at) = "" THEN -1
    ELSE read_string_loop(src, at + 1)

\* read_number: the offset after the number that starts at start
read_number_end_body(src, at) ==
    LET int_end == advance_while(src, at, Digits) IN
    IF inner_peek(src, int_end) = "." /\ peek_next(src, int_end) \in Digits
    THEN advance_while(src, int_end + 1, Digits)
    ELSE int_end

\* f64 values are kept exact: Number(n, d) is n/d in lowest terms
Gcd_body(a, b) == IF b = 0 THEN a ELSE Gcd(b, a % b)

Abs_body(i) == IF i < 0 THEN -i ELSE i

Number_body(n, d) ==
    IF d = 0 THEN [t |-> "num", n |-> n, d |-> 0]
    ELSE LET g == Gcd(Abs(n), Abs(d))
             s == IF d < 0 THEN -1 ELSE 1
         IN [t |-> "num", n |-> s * (n \div g), d |-> s * (d \div g)]

DigitValue_body(c) ==
    CASE c = "0" -> 0 [] c = "1" -> 1 [] c = "2" -> 2 [] c = "3" -> 3 [] c = "4" -> 4
      [] c = "5" -> 5 [] c = "6" -> 6 [] c = "7" -> 7 [] c = "8" -> 8 [] OTHER -> 9

\* str::parse::<f64> on digits with an optional fraction: [n, d] with the
\* value n/d, d the power of ten of the fraction read so far
parse_f64_loop_body(text, i, n, d, in_fraction) ==
    IF i > Len(text) THEN Number(n, d)
    ELSE IF text[i] = "." THEN parse_f64_loop(text, i + 1, n, d, TRUE)
    ELSE parse_f64_loop(text, i + 1, 10 * n + DigitValue(text[i]),
                        IF in_fraction THEN 10 * d ELSE d, in_fraction)

parse_f64_body(text) == parse_f64_loop(text, 1, 0, 1, FALSE)

\* the reserved word of a lexeme as the match of identifier_type decides it:
\* "Identifier" for no reserved word, "panic" where an expect fails
identifier_type_body(text) ==
    LET next == text[1]
        rest == Tail(text)
        second == rest[1]
        rest2 == Tail(rest)
    IN CASE next = "a" /\ rest = <<"n", "d">> -> "And"
         [] next = "c" /\ rest = <<"l", "a", "s", "s">> -> "Class"
         [] next = "e" /\ rest = <<"l", "s", "e">> -> "Else"
         [] next = "i" /\ rest = <<"f">> -> "If"
         [] next = "n" /\ rest = <<"i", "l">> -> "Nil"
         [] next = "o" /\ rest = <<"r">> -> "Or"
         [] next = "p" /\ rest = <<"r", "i", "n", "t">> -> "Print"
         [] next = "r" /\ rest = <<"e", "t", "u", "r", "n">> -> "Return"
         [] next = "s" /\ rest = <<"u", "p", "e", "r">> -> "Super"
         [] next = "v" /\ rest = <<"a", "r">> -> "Var"
         [] next = "w" /\ rest = <<"h", "i", "l", "e">> -> "While"
         [] next = "f" ->
               IF rest = <<>> THEN "panic"
               ELSE CASE second = "a" /\ rest2 = <<"l", "s", "e">> -> "False"
                      [] second = "o" /\ rest2 = <<"r">> -> "For"
                      [] second = "u" /\ rest2 = <<"n">> -> "Fun"
                      [] OTHER -> "Identifier"
         [] next = "t" ->
               IF rest = <<>> THEN "panic"
               ELSE CASE second = "h" /\ rest2 = <<"i", "s">> -> "This"
                      [] second = "r" /\ rest2 = <<"u", "e">> -> "True"
                      [] OTHER -> "Identifier"
         [] OTHER -> "Identifier"

\* matches(expected) for the two-character operators
matches_body(src, at, expected) == inner_peek(src, at) = expected

SingleCharTokens ==
    [c \in {"(", ")", "{", "}", ",", ".", "-", "+", ";", "*", "/"} |->
        CASE c = "(" -> "LeftParen" [] c = ")" -> "RightParen"
          [] c = "{" -> "LeftBrace" [] c = "}" -> "RightBrace"
          [] c = "," -> "Comma" [] c = "." -> "Dot" [] c = "-" -> "Minus"
          [] c = "+" -> "Plus" [] c = ";" -> "Semicolon" [] c = "*" -> "Star"
          [] OTHER -> "Slash"]

OneOrTwoCharTokens ==
    [c \in {"!", "=", "<", ">"} |->
        CASE c = "!" -> <<"Bang", "BangEqual">>
          [] c = "=" -> <<"Equal", "EqualEqual">>
          [] c = "<" -> <<"Less", "LessEqual">>
          [] OTHER -> <<"Greater", "GreaterEqual">>]

\* Scanner::next leaving its cursor in front of a character no token starts
\* with
Scanner_next_stuck(sc) ==
    IF sc.peeked # NoPeek THEN [sc |-> [sc EXCEPT !.peeked = NoPeek], item |-> sc.peeked]
    ELSE
    LET src == sc.src
        start == skip_whitespace_and_comments(src, sc.at)
        char == inner_peek(src, start)
        at1 == start + 1
        result(at, item) ==
            [sc |-> [sc EXCEPT !.start = start, !.at = at], item |-> item]
        token(at, type, text, num) == result(at, Item("ok", type, text, num, start, at))
    IN CASE char = "" -> result(start, NoItem)
         [] char \in DOMAIN SingleCharTokens -> token(at1, SingleCharTokens[char], <<>>, Nil)
         [] char \in DOMAIN OneOrTwoCharTokens ->
               IF matches(src, at1, "=")
               THEN token(at1 + 1, OneOrTwoCharTokens[char][2], <<>>, Nil)
               ELSE token(at1, OneOrTwoCharTokens[char][1], <<>>, Nil)
         [] char = "\"" ->
               LET close == read_string_loop(src, at1) IN
               IF close < 0
               THEN result(Len(src), Item("err", "NonTerminatedString", <<>>, Nil, start, Len(src)))
               ELSE token(close + 1, "String", Slice(src, start + 1, close), Nil)
         [] char \in Digits ->
               LET at == read_number_end(src, at1) IN
               token(at, "Number", Slice(src, start, at), parse_f64(Slice(src, start, at)))
         [] char \in Alphabetic \cup {"_"} ->
               LET at == advance_while(src, at1, Alphabetic \cup Digits \cup {"_"})
                   type == identifier_type(Slice(src, start, at))
               IN IF type = "panic" THEN result(at, PanicItem)
                  ELSE token(at, type, Slice(src, start, at), Nil)
         [] OTHER -> result(start, Item("err", "UnexpectedCharacter", <<char>>, Nil, start, at1))

\* Scanner::peek: fills peeked when it is empty
\* Iterator::next of Scanner: [sc, item]
Scanner_next_body(sc) ==
    IF sc.peeked # NoPeek THEN [sc |-> [sc EXCEPT !.peeked = NoPeek], item |-> sc.peeked]
    ELSE
    LET src == sc.src
        start == skip_whitespace_and_comments(src, sc.at)
        char == inner_peek(src, start)
        at1 == start + 1
        result(at, item) ==
            [sc |-> [sc EXCEPT !.start = start, !.at = at], item |-> item]
        token(at, type, text, num) == result(at, Item("ok", type, text, num, start, at))
    IN CASE char = "" -> result(start, NoItem)
         [] char \in DOMAIN SingleCharTokens -> token(at1, SingleCharTokens[char], <<>>, Nil)
         [] char \in DOMAIN OneOrTwoCharTokens ->
               IF matches(src, at1, "=")
               THEN token(at1 + 1, OneOrTwoCharTokens[char][2], <<>>, Nil)
               ELSE token(at1, OneOrTwoCharTokens[char][1], <<>>, Nil)
         [] char = "\"" ->
               LET close == read_string_loop(src, at1) IN
               IF close < 0
               THEN result(Len(src), Item("err", "NonTerminatedString", <<>>, Nil, start, Len(src)))
               ELSE token(close + 1, "String", Slice(src, start + 1, close), Nil)
         [] char \in Digits ->
               LET at == read_number_end(src, at1) IN
               token(at, "Number", Slice(src, start, at), parse_f64(Slice(src, start, at)))
         [] char \in Alphabetic \cup {"_"} ->
               LET at == advance_while(src, at1, Alphabetic \cup Digits \cup {"_"})
                   type == identifier_type(Slice(src, start, at))
               IN IF type = "panic" THEN result(at, PanicItem)
                  ELSE token(at, type, Slice(src, start, at), Nil)
         [] OTHER -> result(at1, Item("err", "UnexpectedCharacter", <<char>>, Nil, start, at1))

\* Scanner::peek: fills peeked when it is empty
Scanner_peek_body(sc) ==
    IF sc.peeked = NoPeek
    THEN LET r == Scanner_next(sc) IN
         [sc |-> [r.sc EXCEPT !.peeked = IF r.item = NoItem THEN NoPeek ELSE r.item],
          item |-> r.item]
    ELSE [sc |-> sc, item |-> sc.peeked]

(***************************************************************************)
(* Gc (gc/mod.rs, gc/alloc.rs).  The heap is the sequence objs: the node   *)
(* at address r is objs[r], a record with its kind, its fields and the     *)
(* mark bit; a freed node is [kind |-> "Freed"].  head is the intrusive    *)
(* list of live nodes, newest first.                                       *)
(***************************************************************************)
\* the printable ASCII characters in code order: Printable[i] has code i + 31
\* (code 96, the grave accent, cannot be written in a string here; no source
\* text of the model holds it)
Printable ==
    << " ", "!", "\"", "#", "$", "%", "&", "'", "(", ")", "*", "+", ",", "-", ".", "/",
       "0", "1", "2", "3", "4", "5", "6", "7", "8", "9", ":", ";", "<", "=", ">", "?",
       "@", "A", "B", "C", "D", "E", "F", "G", "H", "I", "J", "K", "L", "M", "N", "O",
       "P", "Q", "R", "S", "T", "U", "V", "W", "X", "Y", "Z", "[", "\\", "]", "^", "_",
       "GRAVE", "a", "b", "c", "d", "e", "f", "g", "h", "i", "j", "k", "l", "m", "n", "o",
       "p", "q", "r", "s", "t", "u", "v", "w", "x", "y", "z", "{", "|", "}", "~" >>

\* str::bytes of a source slice
Bytes_body(text) ==
    SubSeq([i \in 1..Len(text) |->
               31 + CHOOSE c \in 1..Len(Printable) : Printable[c] = text[i]], 1, Len(text))

Gc_new ==
    [objs |-> <<>>, head |-> <<>>, grey |-> <<>>, strings |-> HashTable_new,
     bytes_allocated |-> 0, next_gc |-> 1024 * 1024]

\* size_of::<Node>() in the unit the model counts bytes in
SizeOfNode == 1

\* add_to_gc / Alloc for Obj: [gc, ref], the node is the new head, unmarked;
\* freed tells a node whose Box has been dropped (its memory keeps its content)
add_to_gc_body(gc, obj) ==
    LET ref == Len(gc.objs) + 1
        node == [f \in DOMAIN obj \cup {"marked", "freed"} |->
                    IF f \in {"marked", "freed"} THEN FALSE ELSE obj[f]]
    IN [gc |-> [gc EXCEPT !.objs = Append(@, node), !.head = <<ref>> \o @,
                          !.bytes_allocated = @ + SizeOfNode],
        ref |-> ref]

\* Alloc for &str / String: the interned string, or a new one put in the pool
alloc_string_body(gc, bytes) ==
    LET found == find_string(gc.objs, gc.strings, bytes) IN
    IF found # 0 THEN [gc |-> gc, ref |-> found]
    ELSE LET a == add_to_gc(gc, LoxString(bytes))   \* manage_lox_string
         IN [gc |-> [a.gc EXCEPT !.strings =
                        HashTable_insert(a.gc.objs, @, Obj(a.ref), Nil).table],
             ref |-> a.ref]

(***************************************************************************)
(* Compiler (compiler.rs, chunk.rs, token.rs).  An Op is [op, a, b] with   *)
(* a and b its operands (0 when it has none); a Chunk is [code, constants, *)
(* locations]; Option<T> is <<>> for None and <<x>> for Some(x), except    *)
(* Local.depth where -1 is None.  SourceSpan::from(start..at) is           *)
(* <<start, at>>.                                                          *)
(***************************************************************************)
Precedence ==
    [None |-> 0, Assignment |-> 1, Or |-> 2, And |-> 3, Equality |-> 4,
     Comparision |-> 5, Term |-> 6, Factor |-> 7, Unary |-> 8, Call |-> 9]

is_prefix_body(type) ==
    type \in {"LeftParen", "Minus", "Bang", "Number", "Nil", "True", "False", "String",
              "Identifier", "This", "Super"}

infix_precedence_body(type) ==
    CASE type \in {"Minus", "Plus"} -> Precedence.Term
      [] type \in {"Star", "Slash"} -> Precedence.Factor
      [] type \in {"EqualEqual", "BangEqual"} -> Precedence.Equality
      [] type \in {"Greater", "GreaterEqual", "Less", "LessEqual"} -> Precedence.Comparision
      [] type = "Or" -> Precedence.Or
      [] type = "And" -> Precedence.And
      [] type \in {"LeftParen", "Dot"} -> Precedence.Call
      [] OTHER -> Precedence.None

Op(op, a, b) == [op |-> op, a |-> a, b |-> b]

Local(name, depth) == [name |-> name, depth |-> depth, is_captured |-> FALSE]

Compiler_new_body(function_type, function_name) ==
    [function_type |-> function_type, function_name |-> function_name, arity |-> 0,
     locals |-> << Local(IF function_type \in {"Method", "Initializer"}
                         THEN <<"t", "h", "i", "s">> ELSE <<>>, 0) >>,
     upvalues |-> <<>>, scope_depth |-> 0,
     chunk |-> [code |-> <<>>, constants |-> <<>>, locations |-> <<>>]]

\* u16::try_from(code.len() - position): the jump length, -1 for Err
jump_length_body(code_len, position) ==
    IF code_len - position <= 65535 THEN code_len - position ELSE -1

\* resolve_local finding the first local of the name instead of the last
resolve_local_outermost(compiler, name) ==
    LET found == {i \in 1..Len(compiler.locals) : compiler.locals[i].name = name} IN
    IF found = {} THEN [slot |-> -1, initialized |-> FALSE]
    ELSE LET position == CHOOSE i \in found : \A j \in found : i <= j IN
         [slot |-> position - 1, initialized |-> compiler.locals[position].depth # -1]

\* resolve_local: [slot, initialized], slot = -1 for None
resolve_local_body(compiler, name) ==
    LET found == {i \in 1..Len(compiler.locals) : compiler.locals[i].name = name} IN
    IF found = {} THEN [slot |-> -1, initialized |-> FALSE]
    ELSE LET position == CHOOSE i \in found : \A j \in found : j <= i IN
         [slot |-> position - 1, initialized |-> compiler.locals[position].depth # -1]

\* add_upvalue without the search for the descriptor: it is always appended
add_upvalue_appending(cs, lvl, index, is_local) ==
    [cs |-> [cs EXCEPT ![lvl].upvalues = Append(@, [index |-> index, is_local |-> is_local])],
     index |-> Len(cs[lvl].upvalues)]

\* add_upvalue on the compiler cs[lvl]: [cs, index].  (The assert on more
\* than 256 upvalues is out of reach of the sources of the model.)
add_upvalue_body(cs, lvl, index, is_local) ==
    LET upvalue == [index |-> index, is_local |-> is_local]
        upvalues == cs[lvl].upvalues
        found == {i \in 1..Len(upvalues) : upvalues[i] = upvalue}
    IN IF found # {}
       THEN [cs |-> cs, index |-> (CHOOSE i \in found : \A j \in found : i <= j) - 1]
       ELSE [cs |-> [cs EXCEPT ![lvl].upvalues = Append(@, upvalue)],
             index |-> Len(upvalues)]

\* resolve_upvalue on the compiler cs[lvl], whose enclosing compiler is
\* cs[lvl - 1]: [cs, index], index = -1 for None
resolve_upvalue_body(cs, lvl, name) ==
    IF lvl = 1 THEN [cs |-> cs, index |-> -1]
    ELSE LET local == resolve_local(cs[lvl - 1], name) IN
         IF local.slot >= 0
         THEN add_upvalue([cs EXCEPT ![lvl - 1].locals[local.slot + 1].is_captured = TRUE],
                          lvl, local.slot, TRUE)
         ELSE LET non_local == resolve_upvalue(cs, lvl - 1, name) IN
              IF non_local.index >= 0
              THEN add_upvalue(non_local.cs, lvl, non_local.index, FALSE)
              ELSE non_local

\* has_variable_in_current_scope that looks at the locals of every scope
has_variable_in_any_scope(compiler, name) ==
    \E i \in 1..Len(compiler.locals) : compiler.locals[i].name = name

\* has_variable_in_current_scope: the locals from the end while their depth
\* is None or the current scope's
has_variable_in_current_scope_body(compiler, name) ==
    \E i \in 1..Len(compiler.locals) :
        /\ compiler.locals[i].name = name
        /\ \A j \in i..Len(compiler.locals) :
              compiler.locals[j].depth \in {-1, compiler.scope_depth}

\* mark_latest_initialized
mark_latest_initialized_body(compiler) ==
    IF compiler.scope_depth > 0 /\ compiler.locals # <<>>
    THEN [compiler EXCEPT !.locals[Len(compiler.locals)].depth = compiler.scope_depth]
    ELSE compiler

\* end_scope_loop writing Pop for a captured local too
RECURSIVE end_scope_loop_popping(_, _)
end_scope_loop_popping(compiler, location) ==
    LET n == Len(compiler.locals)
        last == compiler.locals[n]
    IN IF n > 0 /\ (last.depth = -1 \/ last.depth > compiler.scope_depth)
       THEN end_scope_loop_popping(
                [compiler EXCEPT
                    !.chunk.code = Append(@, Op("Pop", 0, 0)),
                    !.chunk.locations = Append(@, location),
                    !.locals = SubSeq(@, 1, n - 1)],
                location)
       ELSE compiler

\* end_scope: one Pop or CloseUpvalue per local of the scope that ends
end_scope_loop_body(compiler, location) ==
    LET n == Len(compiler.locals)
        last == compiler.locals[n]
    IN IF n > 0 /\ (last.depth = -1 \/ last.depth > compiler.scope_depth)
       THEN end_scope_loop(
                [compiler EXCEPT
                    !.chunk.code = Append(@, Op(IF last.is_captured THEN "CloseUpvalue"
                                                ELSE "Pop", 0, 0)),
                    !.chunk.locations = Append(@, location),
                    !.locals = SubSeq(@, 1, n - 1)],
                location)
       ELSE compiler

end_scope_body(compiler, location) ==
    end_scope_loop([compiler EXCEPT !.scope_depth = @ - 1], location)

(***************************************************************************)
(* Parser (parser/mod.rs, parser/expression.rs, parser/statement.rs).  A   *)
(* parser is the record                                                    *)
(*   sc      the Scanner                                                   *)
(*   gc      the Gc it allocates in                                        *)
(*   errors  the Vec<Report>: each error is [msg, cause]                   *)
(*   cs      the compilers: cs[Len(cs)] is current, cs[i - 1] the          *)
(*           enclosing compiler of cs[i]                                   *)
(*   current_class  the class being compiled, None outside of a class      *)
(* and, for the Result of the function that last ran on it,                *)
(*   res     "ok", "err" (an Err is being returned) or "panic"             *)
(*   msg     the error of an Err                                           *)
(*   tok     the token the function yielded, NoItem for none               *)
(*   val     the number it yielded (a constant index, a position, ...)     *)
(***************************************************************************)
Parser_new_body(src, gc) ==
    [sc |-> Scanner_new(src), gc |-> gc, errors |-> <<>>,
     cs |-> <<Compiler_new("Script", <<>>)>>, current_class |-> <<>>,
     res |-> "ok", msg |-> <<>>, tok |-> NoItem, val |-> 0]

current(p) == p.cs[Len(p.cs)]

\* miette::bail!(msg)
Fail_body(p, msg) == [p EXCEPT !.res = "err", !.msg = [msg |-> msg, cause |-> ""]]

\* Chunk::write on the current chunk
write_body(p, op, location) ==
    [p EXCEPT !.cs[Len(p.cs)].chunk.code = Append(@, op),
              !.cs[Len(p.cs)].chunk.locations = Append(@, location)]

\* Chunk::add_constant on the current chunk; val is the index
add_constant_body(p, value) ==
    LET index == Len(current(p).chunk.constants) IN
    IF index > 255 THEN [p EXCEPT !.res = "panic"]
    ELSE [p EXCEPT !.cs[Len(p.cs)].chunk.constants = Append(@, value), !.val = index]

\* identifier_constant(self.gc.alloc(name))
identifier_constant_body(p, name) ==
    LET a == alloc_string(p.gc, Bytes(name)) IN
    add_constant([p EXCEPT !.gc = a.gc], Obj(a.ref))

\* Scanner::peek as check! and the loops use it: the scanner holds the
\* peeked item afterwards
peek(p) ==
    LET r == Scanner_peek(p.sc) IN
    [p EXCEPT !.sc = r.sc, !.tok = r.item,
              !.res = IF r.item.k = "panic" THEN "panic" ELSE @]

\* Parser::advance / Scanner::advance
advance_body(p) ==
    LET r == Scanner_next(p.sc)
        q == [p EXCEPT !.sc = r.sc, !.tok = r.item]
    IN CASE r.item.k = "ok" -> q
         [] r.item.k = "none" -> Fail(q, "Unexpected EOF")
         [] r.item.k = "err" -> Fail(q, r.item.type)
         [] OTHER -> [q EXCEPT !.res = "panic"]

\* match_token!: tok is the token taken, NoItem for Ok(None); an error
\* token is taken from the scanner and returned as Err
match_token_body(p, types) ==
    LET r == Scanner_peek(p.sc)
        q == [p EXCEPT !.sc = r.sc, !.tok = NoItem]
        taken == [q EXCEPT !.sc = Scanner_next(r.sc).sc]
    IN CASE r.item.k = "panic" -> [q EXCEPT !.res = "panic"]
         [] r.item.k = "err" -> Fail(taken, r.item.type)
         [] r.item.k = "ok" /\ r.item.type \in types -> [taken EXCEPT !.tok = r.item]
         [] OTHER -> q

\* consume!: tok is the token taken
consume_body(p, types, err_create) ==
    LET a == advance(p) IN
    CASE a.res = "panic" -> a
      [] a.res = "err" -> [a EXCEPT !.msg = [msg |-> err_create, cause |-> a.msg.msg]]
      [] a.tok.type \in types -> a
      [] OTHER -> Fail(a, err_create)

synchronize_body(p) ==
    LET r == Scanner_peek(p.sc)
        peeked == [p EXCEPT !.sc = r.sc]
        advanced == [p EXCEPT !.sc = Scanner_next(r.sc).sc]
    IN CASE r.item.k = "none" -> peeked
         [] r.item.k = "panic" -> [peeked EXCEPT !.res = "panic"]
         [] r.item.k = "ok" /\ r.item.type = "Semicolon" -> advanced
         [] r.item.k = "ok" /\ r.item.type \in {"Class", "Fun", "Var", "For", "If",
                                                "While", "Print"} -> peeked
         [] OTHER -> synchronize(advanced)

\* the ? operator: F runs on p unless p returns an Err or panicked
Then(p, F(_)) == IF p.res # "ok" THEN p ELSE F(p)

emit_jump_body(p, op, location) == write(p, Op(op, 0, 0), location)

\* patch_jump landing on the last instruction emitted instead of behind it
patch_jump_on_last(p, op, position) ==
    LET length == jump_length(Len(current(p).chunk.code) - 1, position) IN
    IF length >= 0
    THEN [p EXCEPT !.cs[Len(p.cs)].chunk.code[position + 1] = Op(op, length, 0)]
    ELSE Fail(p, "Too much code to jump over")

\* patch_jump of the Jump [op, location, position]
patch_jump_body(p, op, position) ==
    LET length == jump_length(Len(current(p).chunk.code), position) IN
    IF length >= 0
    THEN [p EXCEPT !.cs[Len(p.cs)].chunk.code[position + 1] = Op(op, length, 0)]
    ELSE Fail(p, "Too much code to jump over")

emit_loop_body(p, loop_start, location) ==
    LET length == jump_length(Len(current(p).chunk.code), loop_start) IN
    IF length >= 0 THEN write(p, Op("Loop", length, 0), location)
    ELSE Fail(p, "Loop body too large.")


expression_body(p) == parse_precedence(p, Precedence.Assignment)

\* the loop of argument_list; val is the number of arguments parsed
argument_list_loop_body(p, arg_count) ==
    Then(expression(p), LAMBDA e :
    Then(match_token(e, {"Comma"}), LAMBDA m :
        IF m.tok = NoItem THEN [m EXCEPT !.val = arg_count + 1]
        ELSE argument_list_loop(m, arg_count + 1)))

argument_list_body(p) ==
    Then(peek(p), LAMBDA q :
    Then(IF q.tok.k = "ok" /\ q.tok.type = "RightParen" THEN [q EXCEPT !.val = 0]
         ELSE argument_list_loop(q, 0), LAMBDA args :
    Then(consume(args, {"RightParen"}, "Expected ')' after arguments"), LAMBDA c :
        IF args.val > 255 THEN Fail(c, "Can't have more than 255 arguments.")
        ELSE [c EXCEPT !.val = args.val])))

named_variable_body(p, name, can_assign, location) ==
    LET resolved == resolve_local(current(p), name)
        up == resolve_upvalue(p.cs, Len(p.cs), name)
        global == identifier_constant(p, name)
        ops == CASE resolved.slot >= 0 ->
                      [p |-> p, get |-> Op("GetLocal", resolved.slot, 0),
                       set |-> Op("SetLocal", resolved.slot, 0)]
                 [] resolved.slot < 0 /\ up.index >= 0 ->
                      [p |-> [p EXCEPT !.cs = up.cs], get |-> Op("GetUpvalue", up.index, 0),
                       set |-> Op("SetUpvalue", up.index, 0)]
                 [] OTHER ->
                      [p |-> global, get |-> Op("GetGlobal", global.val, 0),
                       set |-> Op("SetGlobal", global.val, 0)]
    IN IF resolved.slot >= 0 /\ ~resolved.initialized
       THEN Fail(p, "Can't read local variable in its own initializer")
       ELSE
       Then(ops.p, LAMBDA q :
       Then(IF can_assign THEN match_token(q, {"Equal"}) ELSE [q EXCEPT !.tok = NoItem],
            LAMBDA m :
               IF m.tok # NoItem
               THEN Then(expression(m), LAMBDA e : write(e, ops.set, location))
               ELSE write(m, ops.get, location)))

prefix_body(p, token, can_assign) ==
    LET unary(op) == Then(expression(p), LAMBDA e : write(e, Op(op, 0, 0), token.loc))
        grouping ==
            Then(expression(p), LAMBDA e :
                consume(e, {"RightParen"}, "Expected ')' after Expression"))
        emit_constant(q, value) ==
            Then(add_constant(q, value), LAMBDA c :
                write(c, Op("Constant", c.val, 0), token.loc))
        this ==
            IF p.current_class = <<>> THEN Fail(p, "Can not use this outside of a class")
            ELSE named_variable(p, <<"t", "h", "i", "s">>, FALSE, token.loc)
    IN CASE token.type = "LeftParen" -> grouping
         [] token.type = "Minus" -> unary("Negate")
         [] token.type = "Bang" -> unary("Not")
         [] token.type = "Number" -> emit_constant(p, token.num)
         [] token.type \in {"Nil", "True", "False"} -> write(p, Op(token.type, 0, 0), token.loc)
         [] token.type = "String" ->
               LET a == alloc_string(p.gc, Bytes(token.text)) IN
               emit_constant([p EXCEPT !.gc = a.gc], Obj(a.ref))
         [] token.type = "Identifier" -> named_variable(p, token.text, can_assign, token.loc)
         [] token.type = "This" -> this
         [] OTHER -> [p EXCEPT !.res = "panic"]     \* unreachable!()

infix_body(p, token, can_assign) ==
    LET location == token.loc
        binary(op, second_op, precedence) ==
            Then(parse_precedence(p, precedence), LAMBDA r :
                LET w == write(r, Op(op, 0, 0), location) IN
                IF second_op = <<>> THEN w ELSE write(w, Op(second_op[1], 0, 0), location))
        and ==
            LET end_jump == Len(current(p).chunk.code)
                j == write(emit_jump(p, "JumpIfFalse", location), Op("Pop", 0, 0), location)
            IN Then(parse_precedence(j, Precedence.And), LAMBDA r :
                   patch_jump(r, "JumpIfFalse", end_jump))
        or ==
            LET else_jump == Len(current(p).chunk.code)
                end_jump == else_jump + 1
                j == emit_jump(emit_jump(p, "JumpIfFalse", location), "Jump", location)
            IN Then(patch_jump(j, "JumpIfFalse", else_jump), LAMBDA e :
               Then(parse_precedence(write(e, Op("Pop", 0, 0), location), Precedence.Or),
                    LAMBDA r : patch_jump(r, "Jump", end_jump)))
        call ==
            Then(argument_list(p), LAMBDA a : write(a, Op("Call", a.val, 0), location))
        dot ==
            Then(consume(p, {"Identifier"}, "Expected property after ."), LAMBDA n :
            Then(identifier_constant(n, n.tok.text), LAMBDA c :
            Then(IF can_assign THEN match_token(c, {"Equal"}) ELSE [c EXCEPT !.tok = NoItem],
                 LAMBDA m :
                 IF m.tok # NoItem
                 THEN Then(expression(m), LAMBDA e :
                          write(e, Op("SetProperty", c.val, 0), location))
                 ELSE Then(match_token(m, {"LeftParen"}), LAMBDA l :
                          IF l.tok # NoItem
                          THEN Then(argument_list(l), LAMBDA a :
                                   write(a, Op("Invoke", c.val, a.val), location))
                          ELSE write(l, Op("GetProperty", c.val, 0), location)))))
    IN CASE token.type = "Minus" -> binary("Subtract", <<>>, Precedence.Factor)
         [] token.type = "Plus" -> binary("Add", <<>>, Precedence.Factor)
         [] token.type = "Star" -> binary("Multiply", <<>>, Precedence.Unary)
         [] token.type = "Slash" -> binary("Divide", <<>>, Precedence.Unary)
         [] token.type = "BangEqual" -> binary("Equal", <<"Not">>, Precedence.Comparision)
         [] token.type = "EqualEqual" -> binary("Equal", <<>>, Precedence.Comparision)
         [] token.type = "Greater" -> binary("Greater", <<>>, Precedence.Term)
         [] token.type = "GreaterEqual" -> binary("Less", <<"Not">>, Precedence.Term)
         [] token.type = "Less" -> binary("Less", <<>>, Precedence.Term)
         [] token.type = "LessEqual" -> binary("Greater", <<"Not">>, Precedence.Term)
         [] token.type = "And" -> and
         [] token.type = "Or" -> or
         [] token.type = "LeftParen" -> call
         [] token.type = "Dot" -> dot
         [] OTHER -> [p EXCEPT !.res = "panic"]     \* unreachable!()

\* the while loop of parse_precedence, with peek_infix_precedence
infix_loop_body(p, precedence, can_assign) ==
    LET q == peek(p)
        peek_infix_precedence ==
            IF q.tok.k = "ok" THEN infix_precedence(q.tok.type) ELSE Precedence.None
    IN CASE q.res # "ok" -> q
         [] q.tok.k = "err" -> Fail([q EXCEPT !.sc = Scanner_next(q.sc).sc], q.tok.type)
         [] precedence <= peek_infix_precedence ->
               Then(advance(q), LAMBDA a :
               Then(infix(a, a.tok, can_assign), LAMBDA i :
                   infix_loop(i, precedence, can_assign)))
         [] OTHER -> q

parse_precedence_body(p, precedence) ==
    LET can_assign == precedence <= Precedence.Assignment IN
    Then(advance(p), LAMBDA a :
    Then(IF is_prefix(a.tok.type) THEN prefix(a, a.tok, can_assign)
         ELSE Fail(a, "Expected expression"), LAMBDA f :
    Then(infix_loop(f, precedence, can_assign), LAMBDA l :
        IF can_assign
        THEN Then(match_token(l, {"Equal"}), LAMBDA m :
                 IF m.tok # NoItem THEN Fail(m, "Invalid assignment target") ELSE m)
        ELSE l)))

\* a method of Compiler applied to the current compiler
on_current_body(p, compiler) == [p EXCEPT !.cs[Len(p.cs)] = compiler]

begin_scope_body(p) == [p EXCEPT !.cs[Len(p.cs)].scope_depth = @ + 1]

\* declare_variable whose add_local has no limit
declare_variable_unlimited(p, name, location) ==
    LET compiler == current(p) IN
    IF compiler.scope_depth > 0
    THEN IF has_variable_in_current_scope(compiler, name)
         THEN Fail(p, "Already a variable with this name in this scope")
         ELSE [p EXCEPT !.cs[Len(p.cs)].locals = Append(@, Local(name, -1))]
    ELSE p

\* declare_variable with add_local
declare_variable_body(p, name, location) ==
    LET compiler == current(p) IN
    IF compiler.scope_depth > 0          \* is_local()
    THEN IF has_variable_in_current_scope(compiler, name)
         THEN Fail(p, "Already a variable with this name in this scope")
         ELSE IF Len(compiler.locals) > 255
         THEN Fail(p, "Too many local variables in function.")
         ELSE [p EXCEPT !.cs[Len(p.cs)].locals = Append(@, Local(name, -1))]
    ELSE p

\* define_variable; global_idx = -1 is None
define_variable_body(p, global_idx, location) ==
    IF global_idx >= 0 THEN write(p, Op("DefineGlobal", global_idx, 0), location)
    ELSE on_current(p, mark_latest_initialized(current(p)))

\* parse_variable; val is the constant index of a global, -1 for a local
parse_variable_body(p) ==
    Then(advance(p), LAMBDA next :
        IF next.tok.type = "Identifier"
        THEN Then(declare_variable(next, next.tok.text, next.tok.loc), LAMBDA d :
                 IF current(d).scope_depth > 0 THEN [d EXCEPT !.val = -1]
                 ELSE identifier_constant(d, next.tok.text))
        ELSE Fail(next, "Expected variable name"))

var_declaration_body(p, location) ==
    Then(parse_variable(p), LAMBDA global :
    Then(match_token(global, {"Equal"}), LAMBDA m :
    Then(IF m.tok # NoItem THEN expression(m) ELSE write(m, Op("Nil", 0, 0), location),
         LAMBDA e :
    Then(consume(e, {"Semicolon"}, "Expected ';' after value"), LAMBDA semicolon :
        define_variable(semicolon, global.val, <<location[1], semicolon.tok.loc[2]>>)))))

\* end_compiler: val is the Function; the enclosing compiler becomes current
end_compiler_body(p, location) ==
    LET w == write(write(p, Op("Nil", 0, 0), location), Op("Return", 0, 0), location)
        old == current(w)
    IN [w EXCEPT !.cs = IF Len(w.cs) > 1 THEN SubSeq(w.cs, 1, Len(w.cs) - 1)
                        ELSE <<Compiler_new("Script", <<>>)>>,
                 !.val = [kind |-> "Function", arity |-> old.arity, chunk |-> old.chunk,
                          name |-> IF old.function_name = <<>> THEN <<>>
                                   ELSE <<LoxString(Bytes(old.function_name[1]))>>,
                          upvalues |-> old.upvalues]]

\* block: tok is the closing brace
block_body(p) ==
    Then(peek(p), LAMBDA q :
        IF q.tok.k = "none" \/ (q.tok.k = "ok" /\ q.tok.type = "RightBrace")
        THEN consume(q, {"RightBrace"}, "Expected '}' after block")
        ELSE Then(declaration(q), LAMBDA d : block(d)))

\* the parameter loop of function
parameters_body(p, left_paren_location) ==
    IF current(p).arity = 255 THEN Fail(p, "Can't have more than 255 parameters.")
    ELSE
    Then(parse_variable([p EXCEPT !.cs[Len(p.cs)].arity = @ + 1]), LAMBDA constant :
    Then(match_token(define_variable(constant, constant.val, left_paren_location),
                     {"Comma"}), LAMBDA m :
        IF m.tok = NoItem THEN m ELSE parameters(m, left_paren_location)))

\* function, with init_compiler; an Err leaves the function's compiler current
function_body(p, function_type) ==
    LET name == IF function_type = "Script" THEN <<>>
                ELSE <<Slice(p.sc.src, p.sc.start, p.sc.at)>>    \* previous_lexeme
        init == begin_scope([p EXCEPT !.cs = Append(@, Compiler_new(function_type, name))])
    IN
    Then(consume(init, {"LeftParen"}, "Expected '(' after function name"), LAMBDA lp :
    Then(peek(lp), LAMBDA q :
    Then(IF q.tok.k = "ok" /\ q.tok.type = "RightParen" THEN q
         ELSE parameters(q, lp.tok.loc), LAMBDA ps :
    Then(consume(ps, {"RightParen"}, "Expected ')' after parameters"), LAMBDA rp :
    Then(consume(rp, {"LeftBrace"}, "Expected '{' before function body"), LAMBDA lb :
    Then(block(lb), LAMBDA b :
        LET closing_location == b.tok.loc
            e == end_compiler(b, closing_location)
            a == add_to_gc(e.gc, e.val)
        IN Then(add_constant([e EXCEPT !.gc = a.gc], Obj(a.ref)), LAMBDA c :
               write(c, Op("Closure", c.val, 0), closing_location))))))))

fun_declaration_body(p, location) ==
    Then(parse_variable(p), LAMBDA global :
    Then(function(on_current(global, mark_latest_initialized(current(global))), "Function"),
         LAMBDA f : define_variable(f, global.val, location)))

class_declaration_body(p, location) ==
    Then(advance(p), LAMBDA next :
        IF next.tok.type = "Identifier"
        THEN Then(identifier_constant(next, next.tok.text), LAMBDA const :
             Then(declare_variable(const, next.tok.text, location), LAMBDA d :
             Then(consume(define_variable(write(d, Op("Class", const.val, 0), location),
                                          IF current(d).scope_depth > 0 THEN -1
                                          ELSE const.val, location),
                          {"LeftBrace"}, "Expected '{' before class body"), LAMBDA lb :
                 consume(lb, {"RightBrace"}, "Expected '}; after class body"))))
        ELSE Fail(next, "Expected variable name"))

\* statement.  The match_token! calls for Print, For, If, Return, While and
\* LeftBrace follow each other with ?, so the first of them takes an error
\* token and returns it: one match_token over the six types does the same.
statement_body(p) ==
    LET Pop == Op("Pop", 0, 0)
        code_len(q) == Len(current(q).chunk.code)
        expression_statement(q) ==
            Then(expression(q), LAMBDA e :
            Then(consume(e, {"Semicolon"}, "Expected ';' after value"), LAMBDA c :
                write(c, Pop, c.tok.loc)))
        print_statement(q, location) ==
            Then(expression(q), LAMBDA e :
            Then(consume(e, {"Semicolon"}, "Expected ';' after value"), LAMBDA c :
                write(c, Op("Print", 0, 0), location)))
        if_statement(q, if_location) ==
            Then(consume(q, {"LeftParen"}, "Expected '(' after if"), LAMBDA lp :
            Then(expression(lp), LAMBDA e :
            Then(consume(e, {"RightParen"}, "Expected ')' after condition"), LAMBDA rp :
                LET location == <<if_location[1], rp.tok.loc[2]>>
                    then_jump == code_len(rp)
                IN
                Then(statement(write(emit_jump(rp, "JumpIfFalse", location), Pop, location)),
                     LAMBDA then :
                    LET else_jump == code_len(then) IN
                    Then(patch_jump(emit_jump(then, "Jump", location), "JumpIfFalse",
                                    then_jump), LAMBDA pt :
                    Then(match_token(write(pt, Pop, location), {"Else"}), LAMBDA m :
                    Then(IF m.tok # NoItem THEN statement(m) ELSE m, LAMBDA else :
                        patch_jump(else, "Jump", else_jump))))))))
        return_statement(q, location) ==
            IF current(q).function_type = "Script"
            THEN Fail(q, "Can't return from top-level code.")
            ELSE Then(match_token(q, {"Semicolon"}), LAMBDA m :
                     IF m.tok # NoItem
                     THEN write(write(m, Op("Nil", 0, 0), location), Op("Return", 0, 0),
                                location)
                     ELSE Then(expression(m), LAMBDA e :
                          Then(consume(e, {"Semicolon"}, "Expected ';' after return value"),
                               LAMBDA c : write(c, Op("Return", 0, 0), location))))
        while_statement(q, while_location) ==
            LET loop_start == code_len(q) IN
            Then(consume(q, {"LeftParen"}, "Expected '(' after while"), LAMBDA lp :
            Then(expression(lp), LAMBDA e :
            Then(consume(e, {"RightParen"}, "Expected ')' after condition"), LAMBDA rp :
                LET location == <<while_location[1], rp.tok.loc[2]>>
                    exit_jump == code_len(rp)
                IN
                Then(statement(write(emit_jump(rp, "JumpIfFalse", location), Pop, location)),
                     LAMBDA body :
                Then(emit_loop(body, loop_start, location), LAMBDA l :
                Then(patch_jump(l, "JumpIfFalse", exit_jump), LAMBDA pj :
                    write(pj, Pop, location)))))))
        for_statement(q, location) ==
            Then(consume(begin_scope(q), {"LeftParen"}, "Expected '(' after for"), LAMBDA lp :
            Then(match_token(lp, {"Semicolon", "Var"}), LAMBDA i :
            Then(CASE i.tok = NoItem -> expression_statement(i)
                   [] i.tok # NoItem /\ i.tok.type = "Var" -> var_declaration(i, i.tok.loc)
                   [] OTHER -> i, LAMBDA init :
            Then(match_token(init, {"Semicolon"}), LAMBDA c :
            Then(IF c.tok = NoItem
                 THEN Then(expression(c), LAMBDA e :
                      Then(consume(e, {"Semicolon"}, "Expected ';' after loop condition"),
                           LAMBDA sc :
                          write(emit_jump(sc, "JumpIfFalse", sc.tok.loc), Pop, sc.tok.loc)))
                 ELSE c, LAMBDA cond :
            Then(match_token(cond, {"RightParen"}), LAMBDA r :
                LET exit_jump == IF c.tok = NoItem THEN code_len(cond) - 2 ELSE -1
                    body_jump == code_len(r)
                    loop_start == IF r.tok = NoItem THEN body_jump + 1 ELSE code_len(init)
                IN
                Then(IF r.tok = NoItem
                     THEN Then(expression(emit_jump(r, "Jump", location)), LAMBDA e :
                          Then(consume(write(e, Pop, location), {"RightParen"},
                                       "Expected ')' after for clauses."), LAMBDA rp :
                          Then(emit_loop(rp, code_len(init), location), LAMBDA l :
                              patch_jump(l, "Jump", body_jump))))
                     ELSE r, LAMBDA inc :
                Then(statement(inc), LAMBDA body :
                Then(emit_loop(body, loop_start, location), LAMBDA l :
                Then(IF exit_jump >= 0
                     THEN Then(patch_jump(l, "JumpIfFalse", exit_jump), LAMBDA pj :
                              write(pj, Pop, location))
                     ELSE l, LAMBDA done :
                    on_current(done, end_scope(current(done), location))))))))))))
    IN
    Then(match_token(p, {"Print", "For", "If", "Return", "While", "LeftBrace"}), LAMBDA m :
        CASE m.tok = NoItem -> expression_statement(m)
          [] m.tok # NoItem /\ m.tok.type = "Print" -> print_statement(m, m.tok.loc)
          [] m.tok # NoItem /\ m.tok.type = "For" -> for_statement(m, m.tok.loc)
          [] m.tok # NoItem /\ m.tok.type = "If" -> if_statement(m, m.tok.loc)
          [] m.tok # NoItem /\ m.tok.type = "Return" -> return_statement(m, m.tok.loc)
          [] m.tok # NoItem /\ m.tok.type = "While" -> while_statement(m, m.tok.loc)
          [] OTHER ->
                Then(block(begin_scope(m)), LAMBDA b :
                    on_current(b, end_scope(current(b), b.tok.loc))))

\* declaration: an Err of match_token! fails the `if let Ok(Some(..))` like
\* Ok(None) does, so the error token it took is dropped and the next
\* match_token! looks at the token after it
declaration_body(p) ==
    LET class == match_token(p, {"Class"})
        fun == match_token([class EXCEPT !.res = "ok"], {"Fun"})
        var == match_token([fun EXCEPT !.res = "ok"], {"Var"})
        taken(m) == m.res = "ok" /\ m.tok # NoItem
        res == IF class.res = "panic" THEN class
               ELSE IF taken(class) THEN class_declaration(class, class.tok.loc)
               ELSE IF fun.res = "panic" THEN fun
               ELSE IF taken(fun) THEN fun_declaration(fun, fun.tok.loc)
               ELSE IF var.res = "panic" THEN var
               ELSE IF taken(var) THEN var_declaration(var, var.tok.loc)
               ELSE statement([var EXCEPT !.res = "ok"])
    IN IF res.res = "err"
       THEN synchronize([res EXCEPT !.errors = Append(@, res.msg), !.res = "ok"])
       ELSE res

(***************************************************************************)
(* The Scanner driven as its tests drive it (scanner.rs, mod tests): a     *)
(* source text is chosen and next() / peek() are called until the input    *)
(* ends.  A panic ends the run.                                            *)
(***************************************************************************)
ScanAlphabet == {"f", "o", "r", "t", "i", "_", "1", " "}

\* the texts over an alphabet of at most n characters
RECURSIVE Sources(_, _)
Sources(alphabet, n) ==
    IF n = 0 THEN {<<>>}
    ELSE LET shorter == Sources(alphabet, n - 1) IN
         shorter \cup {Append(s, c) : s \in {x \in shorter : Len(x) = n - 1}, c \in alphabet}

ScanInit ==
    /\ \E src \in Sources(ScanAlphabet, MaxSourceLen) :
          scan = [sc |-> Scanner_new(src), out |-> <<>>, status |-> "scanning"]
    /\ ht = Idle
    /\ parser = Idle
    /\ vm = Idle

ScanNext ==
    /\ scan.status = "scanning"
    /\ LET r == Scanner_next(scan.sc) IN
       scan' = [sc |-> r.sc,
                out |-> IF r.item = NoItem THEN scan.out ELSE Append(scan.out, r.item),
                status |-> CASE r.item = NoItem -> "done"
                             [] r.item = PanicItem -> "panicked"
                             [] OTHER -> "scanning"]
    /\ UNCHANGED notScan

ScanPeek ==
    /\ scan.status = "scanning"
    /\ scan.sc.peeked = NoPeek
    /\ LET r == Scanner_peek(scan.sc) IN
       /\ r.item \notin {NoItem, PanicItem}
       /\ scan' = [scan EXCEPT !.sc = r.sc]
    /\ UNCHANGED notScan

ScannerNext == ScanNext \/ ScanPeek

SpecScanner == ScanInit /\ [][ScannerNext]_vars

\* the lexemes of the identifier grammar [A-Za-z_][A-Za-z0-9_]*
IsIdentifierLexeme(src) ==
    /\ Len(src) >= 1
    /\ src[1] \in Alphabetic \cup {"_"}
    /\ \A i \in 1..Len(src) : src[i] \in Alphabetic \cup Digits \cup {"_"}

\* the reserved words of the language and their token types
ReservedWords ==
    { <<<<"a", "n", "d">>, "And">>, <<<<"c", "l", "a", "s", "s">>, "Class">>,
      <<<<"e", "l", "s", "e">>, "Else">>, <<<<"f", "a", "l", "s", "e">>, "False">>,
      <<<<"f", "o", "r">>, "For">>, <<<<"f", "u", "n">>, "Fun">>,
      <<<<"i", "f">>, "If">>, <<<<"n", "i", "l">>, "Nil">>, <<<<"o", "r">>, "Or">>,
      <<<<"p", "r", "i", "n", "t">>, "Print">>,
      <<<<"r", "e", "t", "u", "r", "n">>, "Return">>,
      <<<<"s", "u", "p", "e", "r">>, "Super">>, <<<<"t", "h", "i", "s">>, "This">>,
      <<<<"t", "r", "u", "e">>, "True">>, <<<<"v", "a", "r">>, "Var">>,
      <<<<"w", "h", "i", "l", "e">>, "While">> }

ExpectedWordType(src) ==
    IF \E w \in ReservedWords : w[1] = src
    THEN (CHOOSE w \in ReservedWords : w[1] = src)[2]
    ELSE "Identifier"

\* C10: a source that is one lexeme of [A-Za-z_][A-Za-z0-9_]*, of any length
\* from one character on, is scanned into exactly one token that spans the
\* whole lexeme: the keyword's token if the lexeme is a reserved word, an
\* Identifier carrying the lexeme's text otherwise.
C10_IdentifierScansToOneToken ==
    (IsIdentifierLexeme(scan.sc.src) /\ scan.status # "scanning") =>
        /\ scan.status = "done"
        /\ scan.out = << Item("ok", ExpectedWordType(scan.sc.src), scan.sc.src, Nil,
                              0, Len(scan.sc.src)) >>

(***************************************************************************)
(* Parser::compile (parser/mod.rs): the loop over the declarations of a    *)
(* program text, then the Function or the collected errors.                *)
(***************************************************************************)
\* SourceSpan::new(parser.eof.into(), 1) with eof = len.saturating_sub(1)
eof_location_body(src) ==
    LET eof == IF Len(src) = 0 THEN 0 ELSE Len(src) - 1 IN <<eof, eof + 1>>

CompileAlphabet == {"^", "\"", "1", ";", "+", "a"}

CompileInit ==
    /\ \E src \in Sources(CompileAlphabet, MaxProgramLen) :
          parser = [p |-> Parser_new(src, Gc_new), status |-> "compiling"]
    /\ ht = Idle
    /\ scan = Idle
    /\ vm = Idle

\* one turn of `while parser.scanner.peek().is_some() { parser.declaration() }`
CompileDeclaration ==
    /\ parser.status = "compiling"
    /\ Scanner_peek(parser.p.sc).item # NoItem
    /\ LET d == Then(peek(parser.p), LAMBDA q : declaration(q)) IN
       parser' = [p |-> d, status |-> IF d.res = "panic" THEN "panicked" ELSE "compiling"]
    /\ UNCHANGED notParser

\* the end of compile: Ok(Function) when no error was collected, else Err
CompileEnd ==
    /\ parser.status = "compiling"
    /\ Scanner_peek(parser.p.sc).item = NoItem
    /\ parser' = IF parser.p.errors = <<>>
                 THEN [p |-> end_compiler(parser.p, eof_location(parser.p.sc.src)),
                       status |-> "Ok"]
                 ELSE [parser EXCEPT !.status = "Err"]
    /\ UNCHANGED notParser

CompileNext == CompileDeclaration \/ CompileEnd

SpecCompile == CompileInit /\ [][CompileNext]_vars

\* a scanner over the text yields an error token somewhere
RECURSIVE YieldsErrorToken(_)
YieldsErrorToken(sc) ==
    LET r == Scanner_next(sc) IN
    /\ r.item.k \in {"ok", "err"}
    /\ (r.item.k = "err" \/ YieldsErrorToken(r.sc))

\* C8: compile returns the Function only when no lexical error occurred in
\* the source: a source in which the scanner yields an error token at any
\* position, the first token of a declaration included, never compiles to
\* Ok(Function).
C8_FunctionOnlyWithoutLexError ==
    parser.status = "Ok" => ~YieldsErrorToken(Scanner_new(parser.p.sc.src))

\* Parser::compile: [res, gc, function], res is "Ok", "Err" or "panic"; the
\* strings and functions the parser allocated stay on the heap either way
Parser_compile_body(src, gc) ==
    LET RECURSIVE declarations(_)
        declarations(p) ==
            IF p.res = "panic" \/ Scanner_peek(p.sc).item = NoItem THEN p
            ELSE declarations(Then(peek(p), LAMBDA q : declaration(q)))
        p == declarations(Parser_new(src, gc))
    IN CASE p.res = "panic" -> [res |-> "panic", gc |-> p.gc, function |-> <<>>]
         [] p.errors # <<>> -> [res |-> "Err", gc |-> p.gc, function |-> <<>>]
         [] OTHER -> [res |-> "Ok", gc |-> p.gc,
                      function |-> end_compiler(p, eof_location(src)).val]

(***************************************************************************)
(* The VM (vm/mod.rs, vm/callframe.rs, vm/gc.rs, vm/native_functions.rs).  *)
(* The value stack is the sequence of the cells written so far, the cell   *)
(* at offset i from the stack base being stack[i + StackBelow + 1]: the    *)
(* first StackBelow cells are the memory in front of the allocation, which *)
(* only an undefined access reaches.  stack_top and a frame's slots are    *)
(* offsets from the base, a frame's ip is the index of the next Op in the  *)
(* code of the frame's function, an Upvalue's location is a stack offset   *)
(* while open and Closed once it points at its own closed field.           *)
(* The operators below thread the VM record v:                             *)
(*   res   "ok", or "err" when a miette::Result is Err (msg is the error), *)
(*         or "returned" when interpret_inner has returned Ok              *)
(*   val   the value the function at hand returned                         *)
(*   ub    an access outside an allocation, of a cell never written or of  *)
(*         a freed node has happened in the step at hand                   *)
(***************************************************************************)
FRAMES_MAX == 64
\* size_of::<Value>() and size_of::<CallFrame>() in bytes on a 64-bit target
SizeOfValue == 16
SizeOfCallFrame == 24
\* the CallFrames that fit the array VM::new allocates with
\* Layout::array::<Value>(FRAMES_MAX)
FramesCapacity == (FRAMES_MAX * SizeOfValue) \div SizeOfCallFrame

\* a cell no Value was written to
Garbage == [t |-> "garbage", n |-> 0, d |-> 1]
\* the location of a closed upvalue (its own closed field)
Closed == -1000

\* *ptr for the stack cell at offset i: val is the cell
deref_body(v, i) ==
    LET at == i + StackBelow + 1
        cell == IF at >= 1 /\ at <= Len(v.stack) THEN v.stack[at] ELSE Garbage
    IN [v EXCEPT !.val = cell, !.ub = @ \/ i < 0 \/ cell = Garbage]

\* *ptr = value for the stack cell at offset i; a write further in front of
\* the stack than the model keeps memory for ends the run
assign_body(v, i, value) ==
    LET at == i + StackBelow + 1 IN
    IF at < 1 THEN [v EXCEPT !.ub = TRUE, !.res = "crash"]
    ELSE [v EXCEPT !.ub = @ \/ i < 0,
                   !.stack = SubSeq([k \in 1..(IF at > Len(@) THEN at ELSE Len(@)) |->
                                        IF k = at THEN value
                                        ELSE IF k <= Len(@) THEN @[k] ELSE Garbage],
                                    1, IF at > Len(@) THEN at ELSE Len(@))]

push_body(v, value) == [assign(v, v.stack_top, value) EXCEPT !.stack_top = @ + 1]

pop_body(v) == deref([v EXCEPT !.stack_top = @ - 1], v.stack_top - 1)

VM_peek_body(v, distance) == deref(v, v.stack_top - 1 - distance)

\* the node behind an ObjRef; reading a freed node is undefined
node(v, ref) == v.gc.objs[ref]

current_frame_body(v) == v.frames[v.frame_count]

\* CallFrame::function and CallFrame::chunk
chunk(v) == node(v, node(v, current_frame(v).closure).function).chunk

\* miette::bail! labelled with current_frame().current_location(): the
\* location at the index the frame's ip holds
bail_body(v, msg) ==
    LET locations == chunk(v).locations
        current_index == current_frame(v).ip
    IN [v EXCEPT !.res = "err",
                 !.msg = [msg |-> msg,
                          location |-> IF current_index < Len(locations)
                                       THEN locations[current_index + 1] ELSE <<>>]]

(***************************************************************************)
(* Collection (gc/mod.rs, gc/markable.rs, vm/gc.rs)                        *)
(***************************************************************************)
\* Markable for Value and for ObjRef
mark_body(gc, value) ==
    IF value.t # "obj" \/ gc.objs[value.n].marked THEN gc
    ELSE [gc EXCEPT !.objs[value.n].marked = TRUE, !.grey = Append(@, value.n)]

\* iter_mut().for_each(|c| gc.mark(c))
mark_each_body(gc, values) ==
    CASE Len(values) = 0 -> gc
      [] Len(values) = 1 -> mark(gc, values[1])
      [] OTHER -> \* the first half in order, then the second half
            mark_each(mark_each(gc, SubSeq(values, 1, Len(values) \div 2)),
                      SubSeq(values, Len(values) \div 2 + 1, Len(values)))

\* HashTable::mark: the key and the value of every entry
HashTable_mark_body(gc, t) ==
    LET live == SelectSeq(t.entries, LAMBDA e : e.key # NoKey) IN
    mark_each(gc, [i \in 1..(2 * Len(live)) |->
                      IF i % 2 = 1 THEN live[(i + 1) \div 2].key ELSE live[i \div 2].value])

\* HashTable::remove_white on the heap hp: the entries whose key is an
\* unmarked object are deleted
remove_white_loop_body(hp, t, first, last) ==
    CASE first > last -> t
      [] first = last ->
            LET key == t.entries[first].key IN
            IF key # NoKey /\ key.t = "obj" /\ ~hp[key.n].marked
            THEN HashTable_delete(hp, t, key).table ELSE t
      [] OTHER -> \* the first half in order, then the second half
            remove_white_loop(hp, remove_white_loop(hp, t, first, (first + last) \div 2),
                              (first + last) \div 2 + 1, last)

\* blacken of the last grey object.  gc/mod.rs has no arm for a BoundMethod;
\* the one here is Markable for BoundMethod (types/bound_method.rs).
blacken_body(gc) ==
    LET ref == gc.grey[Len(gc.grey)]
        obj == gc.objs[ref]
        popped == [gc EXCEPT !.grey = SubSeq(@, 1, Len(@) - 1)]
    IN CASE obj.kind \in {"Native", "String"} -> popped
         [] obj.kind = "Function" -> mark_each(popped, obj.chunk.constants)
         [] obj.kind = "Closure" ->
               mark_each(mark(popped, Obj(obj.function)),
                         [i \in 1..Len(obj.upvalues) |-> Obj(obj.upvalues[i])])
         [] obj.kind = "Upvalue" -> mark(popped, obj.closed)
         [] obj.kind = "Class" -> popped
         [] obj.kind = "Instance" ->
               HashTable_mark(mark(popped, Obj(obj.class)), obj.fields)
         [] obj.kind = "BoundMethod" ->
               mark(mark(popped, obj.receiver), Obj(obj.method))

\* up to rounds rounds of the loop of trace_references: the last grey object
\* is taken and blackened while there is one
trace_rounds_body(gc, rounds) ==
    CASE rounds = 0 \/ gc.grey = <<>> -> gc
      [] rounds = 1 -> blacken(gc)
      [] OTHER -> \* the first half of the rounds, then the second half
            trace_rounds(trace_rounds(gc, rounds \div 2), rounds - rounds \div 2)

\* an object becomes grey once, when it is marked, so the loop has at most
\* as many rounds as there are objects
trace_references_body(gc) == trace_rounds(gc, Len(gc.objs))

\* sweep that leaves the mark of the survivors set
sweep_keeping_marks(gc) ==
    LET marked == SelectSeq(gc.head, LAMBDA r : gc.objs[r].marked)
        unreached == {gc.head[i] : i \in 1..Len(gc.head)} \ {marked[i] : i \in 1..Len(marked)}
    IN [gc EXCEPT !.head = marked,
                  !.bytes_allocated = @ - SizeOfNode * Cardinality(unreached),
                  !.objs = SubSeq([r \in 1..Len(@) |->
                                      IF r \in unreached THEN [@[r] EXCEPT !.freed = TRUE]
                                      ELSE @[r]],
                                  1, Len(@))]

\* sweep: the unmarked nodes of the list are freed and unlinked, the marked
\* ones lose their mark
sweep_body(gc) ==
    LET marked == SelectSeq(gc.head, LAMBDA r : gc.objs[r].marked)
        unreached == {gc.head[i] : i \in 1..Len(gc.head)} \ {marked[i] : i \in 1..Len(marked)}
    IN [gc EXCEPT !.head = marked,
                  !.bytes_allocated = @ - SizeOfNode * Cardinality(unreached),
                  !.objs = SubSeq([r \in 1..Len(@) |->
                                      IF r \in unreached THEN [@[r] EXCEPT !.freed = TRUE]
                                      ELSE [@[r] EXCEPT !.marked = FALSE]],
                                  1, Len(@))]

\* UpvalueLocation list from an open_upvalues head: the upvalue addresses
upvalue_list_body(hp, upvalue) ==
    IF upvalue = 0 THEN <<>> ELSE <<upvalue>> \o upvalue_list(hp, hp[upvalue].next)

mark_roots_body(v) ==
    LET written == Len(v.stack) - StackBelow
        top == IF v.stack_top < written THEN v.stack_top ELSE written
        \* while stack_ptr < self.stack_top: no cell when stack_top is below the base
        cells == [i \in 1..(IF top < 0 THEN 0 ELSE top) |-> v.stack[i + StackBelow]]
        closures == [i \in 1..v.frame_count |-> Obj(v.frames[i].closure)]
        open == upvalue_list(v.gc.objs, v.open_upvalues)
        upvalues == [i \in 1..Len(open) |-> Obj(open[i])]
        roots == mark_each(v.gc, cells \o closures \o upvalues)
    IN mark(HashTable_mark(roots, v.globals), v.init_string)

\* collect_garbage that sweeps without cleaning the string pool
collect_garbage_without_clean(v) ==
    LET traced == trace_references(mark_roots(v))
        swept == sweep(traced)
    IN [v EXCEPT !.gc = [swept EXCEPT !.next_gc = swept.bytes_allocated * 2],
                 !.ub = @ \/ Len(swept.head) < Len(v.gc.head)]

\* collect_garbage; sweep reads the next field of each node it has freed
collect_garbage_body(v) ==
    LET traced == trace_references(mark_roots(v))
        cleaned == [traced EXCEPT !.strings = remove_white_loop(traced.objs, @, 1, @.capacity)]
        swept == sweep(cleaned)
    IN [v EXCEPT !.gc = [swept EXCEPT !.next_gc = swept.bytes_allocated * 2],
                 !.ub = @ \/ Len(swept.head) < Len(v.gc.head)]

\* should_gc with the threshold itself counted as reached
should_gc_at_threshold(gc) == gc.bytes_allocated >= gc.next_gc

\* Gc::should_gc
should_gc(gc) == gc.bytes_allocated > gc.next_gc

\* VM::alloc: val is the new ObjRef.  A String is interned (Alloc for
\* String and &str), another Obj becomes a new node (Alloc for Obj).
alloc_body(v, object) ==
    LET c == IF v.stress_gc \/ should_gc(v.gc)
             THEN collect_garbage(v) ELSE v
        a == IF object.kind = "String" THEN alloc_string(c.gc, object.string)
             ELSE add_to_gc(c.gc, object)
    IN [c EXCEPT !.gc = a.gc, !.val = a.ref]

(***************************************************************************)
(* Calls, closures and upvalues (vm/mod.rs)                                *)
(***************************************************************************)
\* VM::call without the test of the arity
VM_call_unchecked(v, arg_count, obj) ==
    LET frame == [closure |-> obj, ip |-> 0, slots |-> v.stack_top - arg_count - 1]
    IN IF v.frame_count >= FRAMES_MAX + FramesBeyond
       THEN [v EXCEPT !.ub = TRUE, !.res = "crash"]
       ELSE [v EXCEPT !.frames = IF v.frame_count < Len(@)
                                 THEN [@ EXCEPT ![v.frame_count + 1] = frame]
                                 ELSE Append(@, frame),
                      !.frame_count = @ + 1,
                      !.ub = @ \/ v.frame_count >= FramesCapacity]

\* VM::call: the frame of the closure at obj is written at frames[frame_count];
\* the model follows the writes up to FramesBeyond frames behind FRAMES_MAX
VM_call_body(v, arg_count, obj) ==
    LET fn == node(v, node(v, obj).function)
        frame == [closure |-> obj, ip |-> 0, slots |-> v.stack_top - arg_count - 1]
    IN IF fn.arity # arg_count
       THEN bail(v, <<"Expected", fn.arity, "arguments but got", arg_count>>)
       ELSE IF v.frame_count >= FRAMES_MAX + FramesBeyond
       THEN [v EXCEPT !.ub = TRUE, !.res = "crash"]
       ELSE [v EXCEPT !.frames = IF v.frame_count < Len(@)
                                 THEN [@ EXCEPT ![v.frame_count + 1] = frame]
                                 ELSE Append(@, frame),
                      !.frame_count = @ + 1,
                      !.ub = @ \/ v.frame_count >= FramesCapacity]

\* call_value that does not call the initializer of a class
call_value_skipping_init(v, callee, arg_count, now) ==
    LET callee_slot == v.stack_top - arg_count - 1
        obj == node(v, callee.n)
        used == [v EXCEPT !.ub = @ \/ obj.freed]
        native ==
            LET called == CASE obj.function = "clock" -> [used EXCEPT !.val = Number(now, 1)]
                            [] obj.function = "heapdump" -> [used EXCEPT !.val = Nil]
                            [] obj.function = "gc" -> [collect_garbage(used) EXCEPT !.val = Nil]
            IN push([called EXCEPT !.stack_top = callee_slot], called.val)
        class ==
            LET a == add_to_gc(used.gc, [kind |-> "Instance", class |-> callee.n,
                                         fields |-> HashTable_new])
                instance == assign([used EXCEPT !.gc = a.gc], callee_slot, Obj(a.ref))
                initializer == HashTable_get(used.gc.objs, obj.methods, used.init_string)
            IN CASE arg_count > 0 ->
                        bail(instance, <<"Expected 0 arguments but got", arg_count>>)
                 [] OTHER -> instance
    IN CASE v.frame_count = FRAMES_MAX -> bail(v, "Stack overflow")
         [] callee.t # "obj" -> bail(v, "Can only call functions or classes.")
         [] obj.kind = "Closure" -> VM_call(used, arg_count, callee.n)
         [] obj.kind = "Native" -> native
         [] obj.kind = "Class" -> class
         [] obj.kind = "BoundMethod" ->
                VM_call(assign(used, callee_slot, obj.receiver), arg_count, obj.method)
         [] OTHER -> bail(v, "Can only call closures or classes.")

\* call_value; now is what the system clock reads
call_value_body(v, callee, arg_count, now) ==
    LET callee_slot == v.stack_top - arg_count - 1
        obj == node(v, callee.n)
        used == [v EXCEPT !.ub = @ \/ obj.freed]
        native ==
            LET called == CASE obj.function = "clock" -> [used EXCEPT !.val = Number(now, 1)]
                            [] obj.function = "heapdump" -> [used EXCEPT !.val = Nil]
                            [] obj.function = "gc" -> [collect_garbage(used) EXCEPT !.val = Nil]
            IN push([called EXCEPT !.stack_top = callee_slot], called.val)
        class ==
            LET a == add_to_gc(used.gc, [kind |-> "Instance", class |-> callee.n,
                                         fields |-> HashTable_new])
                instance == assign([used EXCEPT !.gc = a.gc], callee_slot, Obj(a.ref))
                initializer == HashTable_get(used.gc.objs, obj.methods, used.init_string)
            IN CASE initializer # NoKey -> VM_call(instance, arg_count, initializer.n)
                 [] arg_count > 0 ->
                        bail(instance, <<"Expected 0 arguments but got", arg_count>>)
                 [] OTHER -> instance
    IN CASE v.frame_count = FRAMES_MAX -> bail(v, "Stack overflow")
         [] callee.t # "obj" -> bail(v, "Can only call functions or classes.")
         [] obj.kind = "Closure" -> VM_call(used, arg_count, callee.n)
         [] obj.kind = "Native" -> native
         [] obj.kind = "Class" -> class
         [] obj.kind = "BoundMethod" ->
                VM_call(assign(used, callee_slot, obj.receiver), arg_count, obj.method)
         [] OTHER -> bail(v, "Can only call closures or classes.")

\* close_upvalues as it would be if closing only retargeted the upvalue and
\* left its own storage as it was
RECURSIVE close_upvalues_without_copy(_, _)
close_upvalues_without_copy(v, last) ==
    LET head == v.open_upvalues
        upvalue == node(v, head)
    IN IF head = 0 \/ upvalue.location < last THEN v
       ELSE close_upvalues_without_copy([v EXCEPT !.gc.objs[head].location = Closed,
                                                  !.open_upvalues = upvalue.next],
                                        last)

\* close_upvalues that leaves the upvalues open
close_upvalues_skipped(v, last) == v

\* close_upvalues: every open upvalue at or above last takes the value of
\* its slot into closed and points at closed from then on
RECURSIVE close_upvalues(_, _)
close_upvalues(v, last) ==
    LET head == v.open_upvalues
        upvalue == node(v, head)
    IN IF head = 0 \/ upvalue.location < last THEN v
       ELSE LET slot == deref(v, upvalue.location) IN
            close_upvalues([slot EXCEPT !.gc.objs[head].closed = slot.val,
                                        !.gc.objs[head].location = Closed,
                                        !.open_upvalues = upvalue.next],
                           last)

\* capture_upvalue that never looks for an open upvalue of the slot
capture_upvalue_always_new(v, local) ==
    LET created == alloc(v, [kind |-> "Upvalue", location |-> local,
                             next |-> v.open_upvalues, closed |-> Nil])
    IN [created EXCEPT !.open_upvalues = created.val]

\* capture_upvalue that links a new upvalue in front of the whole list
capture_upvalue_at_head(v, local) ==
    LET open == upvalue_list(v.gc.objs, v.open_upvalues)
        found == SelectSeq(open, LAMBDA u : node(v, u).location = local)
    IN IF found # <<>> THEN [v EXCEPT !.val = found[1]]
       ELSE LET created == alloc(v, [kind |-> "Upvalue", location |-> local,
                                     next |-> v.open_upvalues, closed |-> Nil])
            IN [created EXCEPT !.open_upvalues = created.val]

\* capture_upvalue that leaves a new upvalue off the open list
capture_upvalue_unlinked(v, local) ==
    LET open == upvalue_list(v.gc.objs, v.open_upvalues)
        found == SelectSeq(open, LAMBDA u : node(v, u).location = local)
    IN IF found # <<>> THEN [v EXCEPT !.val = found[1]]
       ELSE alloc(v, [kind |-> "Upvalue", location |-> local, next |-> 0, closed |-> Nil])

\* capture_upvalue: val is the upvalue of the slot local, the one on the
\* open list or a new one linked into the list
capture_upvalue_body(v, local) ==
    LET open == upvalue_list(v.gc.objs, v.open_upvalues)
        above == SelectSeq(open, LAMBDA u : node(v, u).location > local)
        prev_upvalue == IF above = <<>> THEN 0 ELSE above[Len(above)]
        upvalue == IF Len(above) < Len(open) THEN open[Len(above) + 1] ELSE 0
    IN IF upvalue # 0 /\ node(v, upvalue).location = local
       THEN [v EXCEPT !.val = upvalue]
       ELSE LET created == alloc(v, [kind |-> "Upvalue", location |-> local,
                                     next |-> upvalue, closed |-> Nil])
            IN IF prev_upvalue # 0
               THEN [created EXCEPT !.gc.objs[prev_upvalue].next = created.val]
               ELSE [created EXCEPT !.open_upvalues = created.val]

\* handle_closure: the closure of the function constant, its upvalues
\* captured from the frame's slots or taken from the frame's closure
handle_closure_body(v, index) ==
    LET obj == chunk(v).constants[index + 1]
        fn == node(v, obj.n)
        RECURSIVE upvalues(_, _, _)
        upvalues(w, i, acc) ==
            IF i > Len(fn.upvalues) THEN [w EXCEPT !.val = acc]
            ELSE LET u == fn.upvalues[i] IN
                 IF u.is_local
                 THEN LET c == capture_upvalue(w, current_frame(w).slots + u.index)
                      IN upvalues(c, i + 1, Append(acc, c.val))
                 ELSE upvalues(w, i + 1,
                          Append(acc, node(w, current_frame(w).closure).upvalues[u.index + 1]))
        captured == upvalues(v, 1, <<>>)
        closure == alloc(captured, [kind |-> "Closure", function |-> obj.n,
                                    upvalues |-> captured.val])
    IN push(closure, Obj(closure.val))

(***************************************************************************)
(* f64 arithmetic on Number(n, d).  The finite values are exact rationals  *)
(* (the numbers of the model are small integers and their quotients; the   *)
(* rounding of f64 and the sign of zero are not modelled), d = 0 holds     *)
(* the infinities and NaN with the IEEE rules.                             *)
(***************************************************************************)
f64_body(op, a, b) ==
    LET sign(x) == IF x.n > 0 THEN 1 ELSE IF x.n < 0 THEN -1 ELSE 0
        nan == Number(0, 0)
        is_nan(x) == x.d = 0 /\ x.n = 0
        neg(x) == [x EXCEPT !.n = -x.n]
        add(x, y) ==
            CASE x.d > 0 /\ y.d > 0 -> Number(x.n * y.d + y.n * x.d, x.d * y.d)
              [] x.d = 0 /\ y.d = 0 -> IF x = y THEN x ELSE nan
              [] x.d = 0 -> x
              [] OTHER -> y
        mul(x, y) ==
            CASE x.d > 0 /\ y.d > 0 -> Number(x.n * y.n, x.d * y.d)
              [] OTHER -> Number(sign(x) * sign(y), 0)
        div(x, y) ==
            CASE x.d > 0 /\ y.d > 0 ->
                    IF y.n = 0 THEN Number(sign(x), 0) ELSE Number(x.n * y.d, x.d * y.n)
              [] x.d = 0 /\ y.d = 0 -> nan
              [] x.d = 0 -> Number(sign(x) * (IF y.n < 0 THEN -1 ELSE 1), 0)
              [] OTHER -> Number(0, 1)
        less(x, y) ==
            CASE x.d > 0 /\ y.d > 0 -> x.n * y.d < y.n * x.d
              [] x.d = 0 /\ y.d = 0 -> x.n < y.n
              [] x.d = 0 -> x.n < 0
              [] OTHER -> y.n > 0
    IN CASE op \in {"Greater", "Less"} /\ (is_nan(a) \/ is_nan(b)) -> Bool(FALSE)
         [] op = "Greater" -> Bool(less(b, a))
         [] op = "Less" -> Bool(less(a, b))
         [] is_nan(a) \/ is_nan(b) -> nan
         [] op = "Add" -> add(a, b)
         [] op = "Subtract" -> add(a, neg(b))
         [] op = "Multiply" -> mul(a, b)
         [] op = "Divide" -> div(a, b)

\* binary_operator!
binary_operator_body(v, op) ==
    LET b == VM_peek(v, 0)
        a == VM_peek(b, 1)
    IN IF a.val.t = "num" /\ b.val.t = "num"
       THEN push(pop(pop(a)), f64(op, a.val, b.val))
       ELSE bail(a, "Operands for operation must be both be numbers")

plus_operator_body(v) ==
    LET b == VM_peek(v, 0)
        a == VM_peek(b, 1)
        strings == /\ a.val.t = "obj" /\ node(v, a.val.n).kind = "String"
                   /\ b.val.t = "obj" /\ node(v, b.val.n).kind = "String"
    IN CASE a.val.t = "num" /\ b.val.t = "num" ->
                push(pop(pop(a)), f64("Add", a.val, b.val))
         [] strings ->
                LET concated == alloc(pop(pop(a)),
                                      [kind |-> "String",
                                       string |-> node(v, a.val.n).string
                                                   \o node(v, b.val.n).string])
                IN push(concated, Obj(concated.val))
         [] OTHER -> bail(a, "Operands for operation must be both be numbers or Strings")

(***************************************************************************)
(* Classes, instances and methods (vm/mod.rs).  A panic of as_class or     *)
(* as_class_mut on another Value is res = "panic".                         *)
(***************************************************************************)
is_kind_body(v, value, kind) == value.t = "obj" /\ node(v, value.n).kind = kind

bind_method_body(v, class, name) ==
    LET method == HashTable_get(v.gc.objs, node(v, class).methods, name)
        receiver == VM_peek(v, 0)
        a == add_to_gc(receiver.gc, [kind |-> "BoundMethod", receiver |-> receiver.val,
                                     method |-> method.n])
    IN IF method = NoKey
       THEN bail(v, <<"Undefined property", name, "on class", node(v, class).name>>)
       ELSE push(pop([receiver EXCEPT !.gc = a.gc]), Obj(a.ref))

invoke_from_class_body(v, class, name, arg_count) ==
    LET method == HashTable_get(v.gc.objs, node(v, class).methods, name) IN
    IF method = NoKey
    THEN bail(v, <<"Undefined property", name, "on class", node(v, class).name>>)
    ELSE VM_call(v, arg_count, method.n)

invoke_body(v, name, arg_count, now) ==
    LET receiver == VM_peek(v, arg_count)
        instance == node(v, receiver.val.n)
        value == HashTable_get(v.gc.objs, instance.fields, name)
    IN IF ~is_kind(v, receiver.val, "Instance")
       THEN bail(receiver, <<"Can only invoke methods on instances, not on", receiver.val>>)
       ELSE IF value # NoKey
       THEN call_value(assign(receiver, v.stack_top - arg_count - 1, value),
                       value, arg_count, now)
       ELSE invoke_from_class(receiver, instance.class, name, arg_count)

\* get_property that looks for a method before it looks for a field
get_property_method_first(v, index) ==
    LET name == chunk(v).constants[index + 1]
        obj == VM_peek(v, 0)
        instance == node(v, obj.val.n)
        field == HashTable_get(v.gc.objs, instance.fields, name)
        method == HashTable_get(v.gc.objs, node(v, instance.class).methods, name)
    IN CASE obj.val.t # "obj" ->
                bail(obj, <<"Can only get properties on objects, not on", obj.val>>)
         [] instance.kind # "Instance" ->
                bail(obj, <<"Can only get properties on instances, not on", obj.val>>)
         [] method # NoKey -> bind_method(obj, instance.class, name)
         [] field # NoKey -> push(pop(obj), field)
         [] OTHER -> bind_method(obj, instance.class, name)

get_property_body(v, index) ==
    LET name == chunk(v).constants[index + 1]
        obj == VM_peek(v, 0)
        instance == node(v, obj.val.n)
        field == HashTable_get(v.gc.objs, instance.fields, name)
    IN CASE obj.val.t # "obj" ->
                bail(obj, <<"Can only get properties on objects, not on", obj.val>>)
         [] instance.kind # "Instance" ->
                bail(obj, <<"Can only get properties on instances, not on", obj.val>>)
         [] field # NoKey -> push(pop(obj), field)
         [] OTHER -> bind_method(obj, instance.class, name)

set_property_body(v, index) ==
    LET name == chunk(v).constants[index + 1]
        obj == VM_peek(v, 1)
        value == VM_peek(obj, 0)
    IN CASE obj.val.t # "obj" ->
                bail(value, <<"Can only get properties on objects, not on", value.val>>)
         [] node(v, obj.val.n).kind # "Instance" ->
                bail(value, <<"Can only get properties on instances, not on", value.val>>)
         [] OTHER ->
                push(pop(pop([value EXCEPT !.gc.objs[obj.val.n].fields =
                                  HashTable_insert(v.gc.objs, @, name, value.val).table])),
                     value.val)

(***************************************************************************)
(* interpret_inner and interpret (vm/mod.rs)                               *)
(***************************************************************************)
\* the ip after Jump / JumpIfFalse (ip.add((offset - 1) as usize)) and after
\* Loop (ip.sub((offset + 1) as usize)), ip being the index behind the
\* instruction; offset - 1 and offset + 1 are u16 arithmetic, which panics
\* on overflow in a build with overflow checks and wraps in one without.
\* -1 is the panic.
jump_ip_body(op, ip, offset, overflow_checks) ==
    CASE op = "Loop" /\ offset + 1 <= 65535 -> ip - (offset + 1)
      [] op = "Loop" -> IF overflow_checks THEN -1 ELSE ip - ((offset + 1) % 65536)
      [] offset >= 1 -> ip + (offset - 1)
      [] OTHER -> IF overflow_checks THEN -1 ELSE ip + ((offset - 1) % 65536)

\* one turn of the loop of interpret_inner: the instruction at the ip of the
\* current frame
run_body(v, now) ==
    LET frame == current_frame(v)
        op == chunk(v).code[frame.ip + 1]
        s == [v EXCEPT !.frames[v.frame_count].ip = @ + 1, !.ub = @ \/ node(v, frame.closure).freed]
        constant == chunk(v).constants[op.a + 1]
        upvalue == node(v, frame.closure).upvalues[op.a + 1]
        location == node(v, upvalue).location
        jump == jump_ip(op.op, frame.ip + 1, op.a, v.overflow_checks)
        jumped == IF jump = -1 THEN [s EXCEPT !.res = "panic"]
                  ELSE [s EXCEPT !.frames[v.frame_count].ip = jump]
        top == VM_peek(s, 0)
        below == VM_peek(s, 1)
    IN
    CASE frame.ip >= Len(chunk(v).code) -> [v EXCEPT !.ub = TRUE, !.res = "crash"]
      [] op.op = "Return" ->
            LET result == pop(s)
                closed == close_upvalues(result, frame.slots)
                left == [closed EXCEPT !.frame_count = @ - 1]
            IN IF left.frame_count = 0 THEN [pop(left) EXCEPT !.res = "returned"]
               ELSE push([left EXCEPT !.stack_top = frame.slots], result.val)
      [] op.op = "Constant" -> push(s, constant)
      [] op.op = "Nil" -> push(s, Nil)
      [] op.op = "True" -> push(s, Bool(TRUE))
      [] op.op = "False" -> push(s, Bool(FALSE))
      [] op.op = "Negate" ->
            IF top.val.t = "num" THEN push(pop(top), [top.val EXCEPT !.n = -@])
            ELSE bail(top, "Operand for unary - must be a number")
      [] op.op = "Add" -> plus_operator(s)
      [] op.op \in {"Subtract", "Multiply", "Divide", "Greater", "Less"} ->
            binary_operator(s, op.op)
      [] op.op = "Not" -> LET p == pop(s) IN push(p, Bool(is_falsey(p.val)))
      [] op.op = "Equal" ->
            LET b == pop(s)
                a == pop(b)
            IN push(a, Bool(Value_eq(a.val, b.val)))
      [] op.op = "Print" -> LET res == pop(s) IN [res EXCEPT !.printer = Append(@, res.val)]
      [] op.op = "Pop" -> pop(s)
      [] op.op = "DefineGlobal" ->
            pop([top EXCEPT !.globals =
                    HashTable_insert(v.gc.objs, @, constant, top.val).table])
      [] op.op = "GetGlobal" ->
            LET g == HashTable_get(v.gc.objs, v.globals, constant) IN
            IF g # NoKey THEN push(s, g) ELSE bail(s, <<"Undefined variable", constant>>)
      [] op.op = "SetGlobal" ->
            LET inserted == HashTable_insert(v.gc.objs, v.globals, constant, top.val) IN
            IF inserted.ret
            THEN bail([top EXCEPT !.globals =
                          HashTable_delete(v.gc.objs, inserted.table, constant).table],
                      <<"Undefined variable", constant>>)
            ELSE [top EXCEPT !.globals = inserted.table]
      [] op.op = "GetLocal" -> LET l == deref(s, frame.slots + op.a) IN push(l, l.val)
      [] op.op = "SetLocal" -> assign(top, frame.slots + op.a, top.val)
      [] op.op = "GetUpvalue" ->
            IF location = Closed THEN push(s, node(v, upvalue).closed)
            ELSE LET l == deref(s, location) IN push(l, l.val)
      [] op.op = "SetUpvalue" ->
            IF location = Closed THEN [top EXCEPT !.gc.objs[upvalue].closed = top.val]
            ELSE assign(top, location, top.val)
      [] op.op = "GetProperty" -> get_property(s, op.a)
      [] op.op = "SetProperty" -> set_property(s, op.a)
      [] op.op = "JumpIfFalse" -> IF is_falsey(top.val) THEN [jumped EXCEPT !.ub = top.ub]
                                  ELSE top
      [] op.op = "Jump" -> jumped
      [] op.op = "Loop" -> jumped
      [] op.op = "Call" ->
            LET callee == VM_peek(s, op.a) IN call_value(callee, callee.val, op.a, now)
      [] op.op = "Closure" -> handle_closure(s, op.a)
      [] op.op = "CloseUpvalue" -> pop(close_upvalues(s, s.stack_top - 1))
      [] op.op = "Class" ->    \* create_class
            LET a == add_to_gc(s.gc, [kind |-> "Class", name |-> node(v, constant.n).string,
                                      methods |-> HashTable_new])
            IN push([s EXCEPT !.gc = a.gc], Obj(a.ref))
      [] op.op = "Method" ->   \* define_method
            IF ~is_kind(v, below.val, "Class") THEN [below EXCEPT !.res = "panic"]
            ELSE pop([VM_peek(below, 0) EXCEPT !.gc.objs[below.val.n].methods =
                         HashTable_insert(v.gc.objs, @, constant, top.val).table])
      [] op.op = "Invoke" -> invoke(s, constant, op.b, now)
      [] op.op = "SuperInvoke" ->    \* super_invoke
            LET super_class == pop(s) IN
            IF ~is_kind(v, super_class.val, "Class") THEN [super_class EXCEPT !.res = "panic"]
            ELSE invoke_from_class(super_class, super_class.val.n, constant, op.b)
      [] op.op = "Inherit" ->
            IF ~is_kind(v, below.val, "Class")
            THEN bail(below, <<"Superclass must be a class, not", below.val>>)
            ELSE IF ~is_kind(v, top.val, "Class") THEN [top EXCEPT !.res = "panic"]
            ELSE pop([VM_peek(below, 0) EXCEPT !.gc.objs[top.val.n].methods =
                         HashTable_add_all(v.gc.objs, @, node(v, below.val.n).methods)])
      [] op.op = "GetSuper" ->
            LET superclass == pop(s) IN
            IF ~is_kind(v, superclass.val, "Class") THEN [superclass EXCEPT !.res = "panic"]
            ELSE bind_method(superclass, superclass.val.n, constant)

(***************************************************************************)
(* The programs the VM is run on.  A program is [src |-> text] for a       *)
(* source Parser::compile compiles, or [assembly |-> function] for a       *)
(* program given as the function the compiler produces for it.  The        *)
(* programs without methods are given as Parser::compile compiles them,    *)
(* the programs with methods as the compiler of the spec compiles          *)
(* them: the parser of src/ compiles no method (its class_declaration      *)
(* takes an empty body).  A function of an assembly is [name, arity, code, *)
(* constants, upvalues], a constant being a Number, [str |-> text] or      *)
(* [fun |-> function].                                                     *)
(***************************************************************************)
SourcePrograms ==
    { \* an undefined variable: a runtime error in the script: x;
      [src |-> <<"x", ";">>],
      \* an expression statement: 1;
      [src |-> <<"1", ";">>] }

\* an upvalue closed by Return, set and read afterwards:
\*   fun m(){var a=1;fun g(){a=a+1;return a;}return g;}var g=m();print g();print g();
ClosureProgram ==
    [assembly |->
        [name |-> <<>>, arity |-> 0, upvalues |-> <<>>,
         constants |-> << [str |-> <<"m">>],
                          [fun |-> [name |-> <<"m">>, arity |-> 0, upvalues |-> <<>>,
                                    constants |-> << Num(1),
                                        [fun |-> [name |-> <<"g">>, arity |-> 0,
                                                  upvalues |-> << [index |-> 1,
                                                                   is_local |-> TRUE] >>,
                                                  constants |-> << Num(1) >>,
                                                  code |-> << Op("GetUpvalue", 0, 0),
                                                              Op("Constant", 0, 0),
                                                              Op("Add", 0, 0),
                                                              Op("SetUpvalue", 0, 0),
                                                              Op("Pop", 0, 0),
                                                              Op("GetUpvalue", 0, 0),
                                                              Op("Return", 0, 0),
                                                              Op("Nil", 0, 0),
                                                              Op("Return", 0, 0) >>]] >>,
                                    code |-> << Op("Constant", 0, 0), Op("Closure", 1, 0),
                                                Op("GetLocal", 2, 0), Op("Return", 0, 0),
                                                Op("Nil", 0, 0), Op("Return", 0, 0) >>]],
                          [str |-> <<"g">>], [str |-> <<"m">>], [str |-> <<"g">>],
                          [str |-> <<"g">>] >>,
         code |-> << Op("Closure", 1, 0), Op("DefineGlobal", 0, 0), Op("GetGlobal", 3, 0),
                     Op("Call", 0, 0), Op("DefineGlobal", 2, 0), Op("GetGlobal", 4, 0),
                     Op("Call", 0, 0), Op("Print", 0, 0), Op("GetGlobal", 5, 0),
                     Op("Call", 0, 0), Op("Print", 0, 0), Op("Nil", 0, 0),
                     Op("Return", 0, 0) >>]]

\* an upvalue closed by CloseUpvalue at the end of a block:
\*   var k;{var a=1;fun g(){return a;}k=g;}print k();
BlockClosureProgram ==
    [assembly |->
        [name |-> <<>>, arity |-> 0, upvalues |-> <<>>,
         constants |-> << [str |-> <<"k">>], Num(1),
                          [fun |-> [name |-> <<"g">>, arity |-> 0,
                                    upvalues |-> << [index |-> 1, is_local |-> TRUE] >>,
                                    constants |-> <<>>,
                                    code |-> << Op("GetUpvalue", 0, 0), Op("Return", 0, 0),
                                                Op("Nil", 0, 0), Op("Return", 0, 0) >>]],
                          [str |-> <<"k">>], [str |-> <<"k">>] >>,
         code |-> << Op("Nil", 0, 0), Op("DefineGlobal", 0, 0), Op("Constant", 1, 0),
                     Op("Closure", 2, 0), Op("GetLocal", 2, 0), Op("SetGlobal", 3, 0),
                     Op("Pop", 0, 0), Op("Pop", 0, 0), Op("CloseUpvalue", 0, 0),
                     Op("GetGlobal", 4, 0), Op("Call", 0, 0), Op("Print", 0, 0),
                     Op("Nil", 0, 0), Op("Return", 0, 0) >>]]

\* one local captured by two closures, written through one of them and read
\* through the other and by the block, before and after the block closes it:
\*   var k;var j;{var a=1;fun g(){a=a+1;}fun h(){return a;}k=g;j=h;g();
\*   print a;print h();}k();print j();
SharedUpvalueProgram ==
    [assembly |->
        [name |-> <<>>, arity |-> 0, upvalues |-> <<>>,
         constants |-> << [str |-> <<"k">>], [str |-> <<"j">>], Num(1),
                          [fun |-> [name |-> <<"g">>, arity |-> 0,
                                    upvalues |-> << [index |-> 1, is_local |-> TRUE] >>,
                                    constants |-> << Num(1) >>,
                                    code |-> << Op("GetUpvalue", 0, 0), Op("Constant", 0, 0),
                                                Op("Add", 0, 0), Op("SetUpvalue", 0, 0),
                                                Op("Pop", 0, 0), Op("Nil", 0, 0),
                                                Op("Return", 0, 0) >>]],
                          [fun |-> [name |-> <<"h">>, arity |-> 0,
                                    upvalues |-> << [index |-> 1, is_local |-> TRUE] >>,
                                    constants |-> <<>>,
                                    code |-> << Op("GetUpvalue", 0, 0), Op("Return", 0, 0),
                                                Op("Nil", 0, 0), Op("Return", 0, 0) >>]],
                          [str |-> <<"k">>], [str |-> <<"j">>], [str |-> <<"k">>],
                          [str |-> <<"j">>] >>,
         code |-> << Op("Nil", 0, 0), Op("DefineGlobal", 0, 0), Op("Nil", 0, 0),
                     Op("DefineGlobal", 1, 0), Op("Constant", 2, 0), Op("Closure", 3, 0),
                     Op("Closure", 4, 0), Op("GetLocal", 2, 0), Op("SetGlobal", 5, 0),
                     Op("Pop", 0, 0), Op("GetLocal", 3, 0), Op("SetGlobal", 6, 0),
                     Op("Pop", 0, 0), Op("GetLocal", 2, 0), Op("Call", 0, 0),
                     Op("Pop", 0, 0), Op("GetLocal", 1, 0), Op("Print", 0, 0),
                     Op("GetLocal", 3, 0), Op("Call", 0, 0), Op("Print", 0, 0),
                     Op("Pop", 0, 0), Op("Pop", 0, 0), Op("CloseUpvalue", 0, 0),
                     Op("GetGlobal", 7, 0), Op("Call", 0, 0), Op("Pop", 0, 0),
                     Op("GetGlobal", 8, 0), Op("Call", 0, 0), Op("Print", 0, 0),
                     Op("Nil", 0, 0), Op("Return", 0, 0) >>]]

\* three locals captured out of the order of their slots: c, then a, then b
\* between them:
\*   {var a=1;var b=2;var c=3;fun g(){return c+a;}fun h(){return b;}print g()+h();}
OrderedUpvaluesProgram ==
    [assembly |->
        [name |-> <<>>, arity |-> 0, upvalues |-> <<>>,
         constants |-> << Num(1), Num(2), Num(3),
                          [fun |-> [name |-> <<"g">>, arity |-> 0,
                                    upvalues |-> << [index |-> 3, is_local |-> TRUE],
                                                    [index |-> 1, is_local |-> TRUE] >>,
                                    constants |-> <<>>,
                                    code |-> << Op("GetUpvalue", 0, 0), Op("GetUpvalue", 1, 0),
                                                Op("Add", 0, 0), Op("Return", 0, 0),
                                                Op("Nil", 0, 0), Op("Return", 0, 0) >>]],
                          [fun |-> [name |-> <<"h">>, arity |-> 0,
                                    upvalues |-> << [index |-> 2, is_local |-> TRUE] >>,
                                    constants |-> <<>>,
                                    code |-> << Op("GetUpvalue", 0, 0), Op("Return", 0, 0),
                                                Op("Nil", 0, 0), Op("Return", 0, 0) >>]] >>,
         code |-> << Op("Constant", 0, 0), Op("Constant", 1, 0), Op("Constant", 2, 0),
                     Op("Closure", 3, 0), Op("Closure", 4, 0), Op("GetLocal", 4, 0),
                     Op("Call", 0, 0), Op("GetLocal", 5, 0), Op("Call", 0, 0),
                     Op("Add", 0, 0), Op("Print", 0, 0), Op("Pop", 0, 0), Op("Pop", 0, 0),
                     Op("CloseUpvalue", 0, 0), Op("CloseUpvalue", 0, 0),
                     Op("CloseUpvalue", 0, 0), Op("Nil", 0, 0), Op("Return", 0, 0) >>]]

\* a call with two arguments from a block with a local below the callee; the
\* callee returns a closure over its first argument and a local:
\*   fun m(a,b){var c=a+b;fun g(){return a+c;}return g;}
\*   {var x=5;var y=m(1,2);print y()+x;}
ArgumentsProgram ==
    [assembly |->
        [name |-> <<>>, arity |-> 0, upvalues |-> <<>>,
         constants |-> << [str |-> <<"m">>],
                          [fun |-> [name |-> <<"m">>, arity |-> 2, upvalues |-> <<>>,
                                    constants |-> <<
                                        [fun |-> [name |-> <<"g">>, arity |-> 0,
                                                  upvalues |-> << [index |-> 1, is_local |-> TRUE],
                                                                  [index |-> 3, is_local |-> TRUE] >>,
                                                  constants |-> <<>>,
                                                  code |-> << Op("GetUpvalue", 0, 0),
                                                              Op("GetUpvalue", 1, 0),
                                                              Op("Add", 0, 0), Op("Return", 0, 0),
                                                              Op("Nil", 0, 0),
                                                              Op("Return", 0, 0) >>]] >>,
                                    code |-> << Op("GetLocal", 1, 0), Op("GetLocal", 2, 0),
                                                Op("Add", 0, 0), Op("Closure", 0, 0),
                                                Op("GetLocal", 4, 0), Op("Return", 0, 0),
                                                Op("Nil", 0, 0), Op("Return", 0, 0) >>]],
                          Num(5), [str |-> <<"m">>], Num(1), Num(2) >>,
         code |-> << Op("Closure", 1, 0), Op("DefineGlobal", 0, 0), Op("Constant", 2, 0),
                     Op("GetGlobal", 3, 0), Op("Constant", 4, 0), Op("Constant", 5, 0),
                     Op("Call", 2, 0), Op("GetLocal", 2, 0), Op("Call", 0, 0),
                     Op("GetLocal", 1, 0), Op("Add", 0, 0), Op("Print", 0, 0),
                     Op("Pop", 0, 0), Op("Pop", 0, 0), Op("Nil", 0, 0),
                     Op("Return", 0, 0) >>]]

\* unbounded recursion through Call: fun r(){r();}r();
RecursionProgram ==
    [assembly |->
        [name |-> <<>>, arity |-> 0, upvalues |-> <<>>,
         constants |-> << [str |-> <<"r">>],
                          [fun |-> [name |-> <<"r">>, arity |-> 0, upvalues |-> <<>>,
                                    constants |-> << [str |-> <<"r">>] >>,
                                    code |-> << Op("GetGlobal", 0, 0), Op("Call", 0, 0),
                                                Op("Pop", 0, 0), Op("Nil", 0, 0),
                                                Op("Return", 0, 0) >>]],
                          [str |-> <<"r">>] >>,
         code |-> << Op("Closure", 1, 0), Op("DefineGlobal", 0, 0), Op("GetGlobal", 2, 0),
                     Op("Call", 0, 0), Op("Pop", 0, 0), Op("Nil", 0, 0),
                     Op("Return", 0, 0) >>]]

\* string concatenation around a collection: var a="x"+"y";gc();print a+"z";
ConcatProgram ==
    [assembly |->
        [name |-> <<>>, arity |-> 0, upvalues |-> <<>>,
         constants |-> << [str |-> <<"a">>], [str |-> <<"x">>], [str |-> <<"y">>],
                          [str |-> <<"g", "c">>], [str |-> <<"a">>], [str |-> <<"z">>] >>,
         code |-> << Op("Constant", 1, 0), Op("Constant", 2, 0), Op("Add", 0, 0),
                     Op("DefineGlobal", 0, 0), Op("GetGlobal", 3, 0), Op("Call", 0, 0),
                     Op("Pop", 0, 0), Op("GetGlobal", 4, 0), Op("Constant", 5, 0),
                     Op("Add", 0, 0), Op("Print", 0, 0), Op("Nil", 0, 0),
                     Op("Return", 0, 0) >>]]

\* class A{m(){}}gc();A().m();
MethodProgram ==
    [assembly |->
        [name |-> <<>>, arity |-> 0, upvalues |-> <<>>,
         constants |-> << [str |-> <<"A">>], [str |-> <<"m">>],
                          [fun |-> [name |-> <<"m">>, arity |-> 0, upvalues |-> <<>>,
                                    constants |-> <<>>,
                                    code |-> << Op("Nil", 0, 0), Op("Return", 0, 0) >>]],
                          [str |-> <<"g", "c">>] >>,
         code |-> << Op("Class", 0, 0), Op("DefineGlobal", 0, 0), Op("GetGlobal", 0, 0),
                     Op("Closure", 2, 0), Op("Method", 1, 0), Op("Pop", 0, 0),
                     Op("GetGlobal", 3, 0), Op("Call", 0, 0), Op("Pop", 0, 0),
                     Op("GetGlobal", 0, 0), Op("Call", 0, 0), Op("Invoke", 1, 0),
                     Op("Pop", 0, 0), Op("Nil", 0, 0), Op("Return", 0, 0) >>]]

\* class A{m(){this.m();}}A().m();
RecursiveMethodProgram ==
    [assembly |->
        [name |-> <<>>, arity |-> 0, upvalues |-> <<>>,
         constants |-> << [str |-> <<"A">>], [str |-> <<"m">>],
                          [fun |-> [name |-> <<"m">>, arity |-> 0, upvalues |-> <<>>,
                                    constants |-> << [str |-> <<"m">>] >>,
                                    code |-> << Op("GetLocal", 0, 0), Op("Invoke", 0, 0),
                                                Op("Pop", 0, 0), Op("Nil", 0, 0),
                                                Op("Return", 0, 0) >>]] >>,
         code |-> << Op("Class", 0, 0), Op("DefineGlobal", 0, 0), Op("GetGlobal", 0, 0),
                     Op("Closure", 2, 0), Op("Method", 1, 0), Op("Pop", 0, 0),
                     Op("GetGlobal", 0, 0), Op("Call", 0, 0), Op("Invoke", 1, 0),
                     Op("Pop", 0, 0), Op("Nil", 0, 0), Op("Return", 0, 0) >>]]

\* a runtime error while an upvalue is open: {var a=1;fun g(){a;}x;}
OpenUpvalueErrorProgram ==
    [src |-> <<"{", "v", "a", "r", " ", "a", "=", "1", ";", "f", "u", "n",
               " ", "g", "(", ")", "{", "a", ";", "}", "x", ";", "}">>]

Programs ==
    SourcePrograms
        \cup {ClosureProgram, BlockClosureProgram, RecursionProgram, ConcatProgram,
              MethodProgram, RecursiveMethodProgram, SharedUpvalueProgram,
              OrderedUpvaluesProgram, ArgumentsProgram,
              OpenUpvalueErrorProgram}

\* the constants cs of an assembly allocated in their order after those of
\* st = [gc, constants], as the compiler allocates them
assemble_constants_body(st, cs) ==
    CASE Len(cs) = 0 -> st
      [] Len(cs) = 1 ->
            LET c == cs[1] IN
            CASE "str" \in DOMAIN c ->
                   LET a == alloc_string(st.gc, Bytes(c.str))
                   IN [gc |-> a.gc, constants |-> Append(st.constants, Obj(a.ref))]
              [] "fun" \in DOMAIN c ->
                   LET inner == assemble(st.gc, c.fun)
                       a == add_to_gc(inner.gc, inner.function)
                   IN [gc |-> a.gc, constants |-> Append(st.constants, Obj(a.ref))]
              [] OTHER -> [st EXCEPT !.constants = Append(@, c)]
      [] OTHER -> \* the first half in order, then the second half
            assemble_constants(assemble_constants(st, SubSeq(cs, 1, Len(cs) \div 2)),
                               SubSeq(cs, Len(cs) \div 2 + 1, Len(cs)))

\* the Function of an assembly: [res, gc, function]
assemble_body(gc, f) ==
    LET done == assemble_constants([gc |-> gc, constants |-> <<>>], f.constants)
    IN [res |-> "Ok", gc |-> done.gc,
        function |-> [kind |-> "Function", arity |-> f.arity, upvalues |-> f.upvalues,
                      name |-> IF f.name = <<>> THEN <<>>
                               ELSE <<LoxString(Bytes(f.name))>>,
                      chunk |-> [code |-> f.code, constants |-> done.constants,
                                 locations |-> SubSeq([i \in 1..Len(f.code) |-> <<0, 0>>],
                                                      1, Len(f.code))]]]

\* VM::define_native: the name and the native are kept on the stack while
\* the global is inserted
define_native_body(v, name, native) ==
    LET n == alloc(v, [kind |-> "String", string |-> Bytes(name)])
        pushed_name == push(n, Obj(n.val))
        f == alloc(pushed_name, [kind |-> "Native", function |-> native])
        pushed == push(f, Obj(f.val))
        defined == [pushed EXCEPT !.globals =
                       HashTable_insert(pushed.gc.objs, @, VM_peek(pushed, 1).val,
                                        VM_peek(pushed, 0).val).table]
    IN InOrder(<<n, pushed_name, f, pushed, defined>>, pop(pop(defined)))

\* VM::new for a build with or without the stress_gc feature and with or
\* without overflow checks; define_native_functions registers clock,
\* heapdump and gc
VM_fields(stress_gc, overflow_checks) ==
    LET init == alloc_string(Gc_new, Bytes(<<"i", "n", "i", "t">>))
    IN [stack |-> SubSeq([i \in 1..StackBelow |-> Garbage], 1, StackBelow),
        stack_top |-> 0,
        frames |-> <<>>, frame_count |-> 0, gc |-> init.gc,
        globals |-> HashTable_new, printer |-> <<>>, open_upvalues |-> 0,
        init_string |-> Obj(init.ref),
        stress_gc |-> stress_gc, overflow_checks |-> overflow_checks,
        res |-> "ok", msg |-> <<>>, val |-> 0, ub |-> FALSE]

VM_new_body(stress_gc, overflow_checks) ==
    define_native(
        define_native(define_native(VM_fields(stress_gc, overflow_checks),
                                    <<"c", "l", "o", "c", "k">>, "clock"),
                      <<"h", "e", "a", "p", "d", "u", "m", "p">>, "heapdump"),
        <<"g", "c">>, "gc")

\* interpret up to the call of interpret_inner: res is "compile_error" for
\* Err(CompileError), "err" for the Err of call_value, "ok" when the
\* script's frame is ready to run
interpret_body(v, program, now) ==
    LET compiled == IF "src" \in DOMAIN program THEN Parser_compile(program.src, v.gc)
                    ELSE assemble(v.gc, program.assembly)
        w == [v EXCEPT !.gc = compiled.gc]
        f == add_to_gc(w.gc, compiled.function)
        pushed == push([w EXCEPT !.gc = f.gc], Obj(f.ref))
        closure == alloc(pushed, [kind |-> "Closure", function |-> f.ref,
                                  upvalues |-> <<>>])
        ready == VM_peek(push(pop(closure), Obj(closure.val)), 0)
    IN CASE compiled.res = "panic" -> [w EXCEPT !.res = "panic"]
         [] compiled.res = "Err" -> [w EXCEPT !.res = "compile_error"]
         [] OTHER -> InOrder(<<f, pushed, closure, ready>>,
                             call_value(ready, ready.val, 0, now))

reset_stack(v) == [v EXCEPT !.stack_top = 0]

\* the functions of the program by name
Call(f, a) ==
    CASE Len(a) = 0 -> a
      [] f = "IsNaN" -> IsNaN_body(a[1])
      [] f = "Value_eq" -> Value_eq_body(a[1], a[2])
      [] f = "is_falsey" -> is_falsey_body(a[1])
      [] f = "XorBit" -> XorBit_body(a[1], a[2], a[3])
      [] f = "XorByte" -> XorByte_body(a[1], a[2])
      [] f = "fnv_step" -> fnv_step_body(a[1], a[2])
      [] f = "hash_loop" -> hash_loop_body(a[1], a[2], a[3])
      [] f = "hash_str" -> hash_str_body(a[1])
      [] f = "LoxString" -> LoxString_body(a[1])
      [] f = "Value_hash" -> Value_hash_body(a[1], a[2])
      [] f = "HashMod" -> HashMod_body(a[1], a[2])
      [] f = "is_tombstone" -> is_tombstone_body(a[1])
      [] f = "make_tombstone" -> make_tombstone_body(a[1])
      [] f = "grow_capacity" -> grow_capacity_body(a[1])
      [] f = "find_entry" -> find_entry_body(a[1], a[2], a[3], a[4])
      [] f = "adjust_capacity_copy" -> adjust_capacity_copy_body(a[1], a[2], a[3], a[4], a[5])
      [] f = "adjust_capacity" -> adjust_capacity_body(a[1], a[2], a[3])
      [] f = "insert_entry" -> insert_entry_body(a[1], a[2], a[3], a[4])
      [] f = "over_load" -> over_load_body(a[1], a[2])
      [] f = "HashTable_insert" -> HashTable_insert_body(a[1], a[2], a[3], a[4])
      [] f = "HashTable_get" -> HashTable_get_body(a[1], a[2], a[3])
      [] f = "HashTable_delete" -> HashTable_delete_body(a[1], a[2], a[3])
      [] f = "add_all_loop" -> add_all_loop_body(a[1], a[2], a[3], a[4], a[5])
      [] f = "HashTable_add_all" -> HashTable_add_all_body(a[1], a[2], a[3])
      [] f = "find_string" -> find_string_body(a[1], a[2], a[3])
      [] f = "Scanner_new" -> Scanner_new_body(a[1])
      [] f = "inner_peek" -> inner_peek_body(a[1], a[2])
      [] f = "peek_next" -> peek_next_body(a[1], a[2])
      [] f = "Slice" -> Slice_body(a[1], a[2], a[3])
      [] f = "consume_comment" -> consume_comment_body(a[1], a[2])
      [] f = "skip_whitespace_and_comments" -> skip_whitespace_and_comments_body(a[1], a[2])
      [] f = "advance_while" -> advance_while_body(a[1], a[2], a[3])
      [] f = "read_string_loop" -> read_string_loop_body(a[1], a[2])
      [] f = "read_number_end" -> read_number_end_body(a[1], a[2])
      [] f = "Gcd" -> Gcd_body(a[1], a[2])
      [] f = "Abs" -> Abs_body(a[1])
      [] f = "Number" -> Number_body(a[1], a[2])
      [] f = "DigitValue" -> DigitValue_body(a[1])
      [] f = "parse_f64_loop" -> parse_f64_loop_body(a[1], a[2], a[3], a[4], a[5])
      [] f = "parse_f64" -> parse_f64_body(a[1])
      [] f = "identifier_type" -> identifier_type_body(a[1])
      [] f = "matches" -> matches_body(a[1], a[2], a[3])
      [] f = "Scanner_next" -> Scanner_next_body(a[1])
      [] f = "Scanner_peek" -> Scanner_peek_body(a[1])
      [] f = "Bytes" -> Bytes_body(a[1])
      [] f = "add_to_gc" -> add_to_gc_body(a[1], a[2])
      [] f = "alloc_string" -> alloc_string_body(a[1], a[2])
      [] f = "is_prefix" -> is_prefix_body(a[1])
      [] f = "infix_precedence" -> infix_precedence_body(a[1])
      [] f = "Compiler_new" -> Compiler_new_body(a[1], a[2])
      [] f = "jump_length" -> jump_length_body(a[1], a[2])
      [] f = "resolve_local" -> resolve_local_body(a[1], a[2])
      [] f = "add_upvalue" -> add_upvalue_body(a[1], a[2], a[3], a[4])
      [] f = "resolve_upvalue" -> resolve_upvalue_body(a[1], a[2], a[3])
      [] f = "has_variable_in_current_scope" -> has_variable_in_current_scope_body(a[1], a[2])
      [] f = "mark_latest_initialized" -> mark_latest_initialized_body(a[1])
      [] f = "end_scope_loop" -> end_scope_loop_body(a[1], a[2])
      [] f = "end_scope" -> end_scope_body(a[1], a[2])
      [] f = "Parser_new" -> Parser_new_body(a[1], a[2])
      [] f = "Fail" -> Fail_body(a[1], a[2])
      [] f = "write" -> write_body(a[1], a[2], a[3])
      [] f = "add_constant" -> add_constant_body(a[1], a[2])
      [] f = "identifier_constant" -> identifier_constant_body(a[1], a[2])
      [] f = "advance" -> advance_body(a[1])
      [] f = "match_token" -> match_token_body(a[1], a[2])
      [] f = "consume" -> consume_body(a[1], a[2], a[3])
      [] f = "synchronize" -> synchronize_body(a[1])
      [] f = "emit_jump" -> emit_jump_body(a[1], a[2], a[3])
      [] f = "patch_jump" -> patch_jump_body(a[1], a[2], a[3])
      [] f = "emit_loop" -> emit_loop_body(a[1], a[2], a[3])
      [] f = "expression" -> expression_body(a[1])
      [] f = "argument_list_loop" -> argument_list_loop_body(a[1], a[2])
      [] f = "argument_list" -> argument_list_body(a[1])
      [] f = "named_variable" -> named_variable_body(a[1], a[2], a[3], a[4])
      [] f = "prefix" -> prefix_body(a[1], a[2], a[3])
      [] f = "infix" -> infix_body(a[1], a[2], a[3])
      [] f = "infix_loop" -> infix_loop_body(a[1], a[2], a[3])
      [] f = "parse_precedence" -> parse_precedence_body(a[1], a[2])
      [] f = "on_current" -> on_current_body(a[1], a[2])
      [] f = "begin_scope" -> begin_scope_body(a[1])
      [] f = "declare_variable" -> declare_variable_body(a[1], a[2], a[3])
      [] f = "define_variable" -> define_variable_body(a[1], a[2], a[3])
      [] f = "parse_variable" -> parse_variable_body(a[1])
      [] f = "var_declaration" -> var_declaration_body(a[1], a[2])
      [] f = "end_compiler" -> end_compiler_body(a[1], a[2])
      [] f = "block" -> block_body(a[1])
      [] f = "parameters" -> parameters_body(a[1], a[2])
      [] f = "function" -> function_body(a[1], a[2])
      [] f = "fun_declaration" -> fun_declaration_body(a[1], a[2])
      [] f = "class_declaration" -> class_declaration_body(a[1], a[2])
      [] f = "statement" -> statement_body(a[1])
      [] f = "declaration" -> declaration_body(a[1])
      [] f = "eof_location" -> eof_location_body(a[1])
      [] f = "Parser_compile" -> Parser_compile_body(a[1], a[2])
      [] f = "deref" -> deref_body(a[1], a[2])
      [] f = "assign" -> assign_body(a[1], a[2], a[3])
      [] f = "push" -> push_body(a[1], a[2])
      [] f = "pop" -> pop_body(a[1])
      [] f = "VM_peek" -> VM_peek_body(a[1], a[2])
      [] f = "current_frame" -> current_frame_body(a[1])
      [] f = "bail" -> bail_body(a[1], a[2])
      [] f = "mark" -> mark_body(a[1], a[2])
      [] f = "mark_each" -> mark_each_body(a[1], a[2])
      [] f = "HashTable_mark" -> HashTable_mark_body(a[1], a[2])
      [] f = "remove_white_loop" -> remove_white_loop_body(a[1], a[2], a[3], a[4])
      [] f = "blacken" -> blacken_body(a[1])
      [] f = "trace_rounds" -> trace_rounds_body(a[1], a[2])
      [] f = "trace_references" -> trace_references_body(a[1])
      [] f = "sweep" -> sweep_body(a[1])
      [] f = "upvalue_list" -> upvalue_list_body(a[1], a[2])
      [] f = "mark_roots" -> mark_roots_body(a[1])
      [] f = "collect_garbage" -> collect_garbage_body(a[1])
      [] f = "alloc" -> alloc_body(a[1], a[2])
      [] f = "VM_call" -> VM_call_body(a[1], a[2], a[3])
      [] f = "call_value" -> call_value_body(a[1], a[2], a[3], a[4])
      [] f = "capture_upvalue" -> capture_upvalue_body(a[1], a[2])
      [] f = "handle_closure" -> handle_closure_body(a[1], a[2])
      [] f = "f64" -> f64_body(a[1], a[2], a[3])
      [] f = "binary_operator" -> binary_operator_body(a[1], a[2])
      [] f = "plus_operator" -> plus_operator_body(a[1])
      [] f = "is_kind" -> is_kind_body(a[1], a[2], a[3])
      [] f = "bind_method" -> bind_method_body(a[1], a[2], a[3])
      [] f = "invoke_from_class" -> invoke_from_class_body(a[1], a[2], a[3], a[4])
      [] f = "invoke" -> invoke_body(a[1], a[2], a[3], a[4])
      [] f = "get_property" -> get_property_body(a[1], a[2])
      [] f = "set_property" -> set_property_body(a[1], a[2])
      [] f = "jump_ip" -> jump_ip_body(a[1], a[2], a[3], a[4])
      [] f = "run" -> run_body(a[1], a[2])
      [] f = "assemble_constants" -> assemble_constants_body(a[1], a[2])
      [] f = "assemble" -> assemble_body(a[1], a[2])
      [] f = "define_native" -> define_native_body(a[1], a[2], a[3])
      [] f = "VM_new" -> VM_new_body(a[1], a[2])
      [] f = "interpret" -> interpret_body(a[1], a[2], a[3])

(***************************************************************************)
(* The VM as the REPL drives it: interpret calls on one VM, each call run  *)
(* instruction by instruction.  status is "ready" between the calls,       *)
(* "running" inside interpret_inner, "panicked" after a panic and          *)
(* "crashed" when an undefined access ended the process; result is what    *)
(* the last call of interpret returned.                                    *)
(***************************************************************************)
\* what a step with an undefined access does: its effect on the memory as
\* the model keeps it, or the end of the process
UbOutcomes == {"proceed", "crash"}
\* readings of the system clock
ClockReadings == {7}

\* the state after a step of interpret that ended in v
Returned(v, result) ==
    [v EXCEPT !.status = "ready", !.result = result, !.calls = @ + 1]

After(v, outcome) ==
    CASE v.res = "crash" \/ (v.ub /\ outcome = "crash") -> [v EXCEPT !.status = "crashed"]
      [] v.res = "panic" -> [v EXCEPT !.status = "panicked"]
      [] v.res = "compile_error" -> Returned(v, "CompileError")
      [] v.res = "returned" -> Returned(v, "Ok")
      [] v.res = "err" ->
            Returned(IF v.status = "running" THEN reset_stack(v) ELSE v, "RuntimeError")
      [] OTHER -> [v EXCEPT !.status = "running"]

\* a new VM before its first interpret call; src is the program of the last call
Fresh(stress_gc, overflow_checks) ==
    LET new == VM_new(stress_gc, overflow_checks) IN
    [f \in DOMAIN new \cup {"status", "result", "calls", "src"} |->
        CASE f = "status" -> "ready"
          [] f = "result" -> "none"
          [] f = "calls" -> 0
          [] f = "src" -> <<>>
          [] OTHER -> new[f]]

VmInit ==
    /\ \E stress_gc \in BOOLEAN, overflow_checks \in BOOLEAN :
          vm = Fresh(stress_gc, overflow_checks)
    /\ ht = Idle
    /\ scan = Idle
    /\ parser = Idle

\* VM::interpret(src): compile, wrap the script in a closure, call it
Interpret ==
    /\ vm.status = "ready"
    /\ vm.calls < MaxInterprets
    /\ \E src \in Programs, now \in ClockReadings, outcome \in UbOutcomes :
          vm' = After(interpret([vm EXCEPT !.res = "ok", !.ub = FALSE, !.src = src],
                                src, now), outcome)
    /\ UNCHANGED notVm

\* one instruction of interpret_inner, and the return of interpret when the
\* instruction ends the run
Step ==
    /\ vm.status = "running"
    /\ \E now \in ClockReadings, outcome \in UbOutcomes :
          vm' = After(run([vm EXCEPT !.ub = FALSE], now), outcome)
    /\ UNCHANGED notVm

Next == Interpret \/ Step

Spec == VmInit /\ [][Next]_vars

\* C1: after every call of interpret has returned, with Ok, with a compile
\* error or with a runtime error, and whatever calls came before it on the
\* same VM, stack_top is the stack base.
C1_StackTopIsBaseAfterInterpret ==
    (vm.status = "ready" /\ vm.calls > 0) => vm.stack_top = 0

(***************************************************************************)
(* Arithmetic expressions compiled and run: `print <expression>;` on a new *)
(* VM, the expression built from number literals, parentheses, unary minus *)
(* and + - * /.                                                            *)
(***************************************************************************)
ExprDigits == {"1", "2", "3"}
ExprOperators == {"+", "-", "*", "/"}

\* the expressions of exactly n characters
RECURSIVE ExprsOfLen(_)
ExprsOfLen(n) ==
    IF n <= 0 THEN {}
    ELSE (IF n = 1 THEN {<<c>> : c \in ExprDigits} ELSE {})
         \cup {<<"-">> \o e : e \in ExprsOfLen(n - 1)}
         \cup {<<"(">> \o e \o <<")">> : e \in ExprsOfLen(n - 2)}
         \cup UNION {{a \o <<o>> \o b : a \in ExprsOfLen(i), b \in ExprsOfLen(n - 1 - i),
                                        o \in ExprOperators} : i \in 1..(n - 2)}

PrintStatement(e) == <<"p", "r", "i", "n", "t", " ">> \o e \o <<";">>

ExprInit ==
    /\ \E n \in 1..MaxExprLen : \E e \in ExprsOfLen(n) :
          vm = [Fresh(FALSE, TRUE) EXCEPT !.src = [src |-> PrintStatement(e)]]
    /\ ht = Idle
    /\ scan = Idle
    /\ parser = Idle

ExprInterpret ==
    /\ vm.status = "ready"
    /\ vm.calls = 0
    /\ \E now \in ClockReadings, outcome \in UbOutcomes :
          vm' = After(interpret([vm EXCEPT !.res = "ok", !.ub = FALSE], vm.src, now),
                      outcome)
    /\ UNCHANGED notVm

ExprNext == ExprInterpret \/ Step

SpecExpr == ExprInit /\ [][ExprNext]_vars

\* the value of an expression under the usual grammar:
\*   sum -> product (("+" | "-") product)*,  product -> unary (("*" | "/") unary)*,
\*   unary -> "-" unary | primary,  primary -> digit | "(" sum ")"
\* each function yields [val, at]: the value and the index behind what it read
RECURSIVE GrammarSum(_, _)
GrammarSum(e, from) ==
    LET RECURSIVE unary(_)
        unary(i) ==
            CASE e[i] = "-" -> LET r == unary(i + 1)
                               IN [val |-> [r.val EXCEPT !.n = -@], at |-> r.at]
              [] e[i] = "(" -> LET r == GrammarSum(e, i + 1) IN [val |-> r.val, at |-> r.at + 1]
              [] OTHER -> [val |-> parse_f64(<<e[i]>>), at |-> i + 1]
        RECURSIVE product(_)
        product(acc) ==
            IF acc.at <= Len(e) /\ e[acc.at] \in {"*", "/"}
            THEN LET r == unary(acc.at + 1) IN
                 product([val |-> f64(IF e[acc.at] = "*" THEN "Multiply" ELSE "Divide",
                                      acc.val, r.val), at |-> r.at])
            ELSE acc
        RECURSIVE sum(_)
        sum(acc) ==
            IF acc.at <= Len(e) /\ e[acc.at] \in {"+", "-"}
            THEN LET r == product(unary(acc.at + 1)) IN
                 sum([val |-> f64(IF e[acc.at] = "+" THEN "Add" ELSE "Subtract",
                                  acc.val, r.val), at |-> r.at])
            ELSE acc
    IN sum(product(unary(from)))

\* C9: compiling and running an expression of number literals, parentheses,
\* unary minus and + - * / yields the value the expression has under the
\* usual grammar (unary minus binds to its own operand, * and / bind tighter
\* than + and -, equal precedence associates to the left).
C9_ExpressionValue ==
    (vm.status = "ready" /\ vm.calls = 1) =>
        /\ vm.result = "Ok"
        /\ vm.printer = << GrammarSum(SubSeq(vm.src.src, 7, Len(vm.src.src) - 1), 1).val >>

(***************************************************************************)
(* Jumps: the operand the compiler computes for a Jump, JumpIfFalse or     *)
(* Loop (emit_jump with patch_jump, emit_loop) and the ip the VM computes  *)
(* from it.  position is the index of the jump instruction, or of the      *)
(* loop start; distance is the number of instructions from there to the    *)
(* place the operand is computed at.                                       *)
(***************************************************************************)
JumpPositions == {0, 1, 2}
JumpDistances == {1, 2, 3, 255, 256, 65534, 65535, 65536}

JumpInit ==
    /\ \E op \in {"Jump", "JumpIfFalse", "Loop"}, position \in JumpPositions,
          distance \in JumpDistances, overflow_checks \in BOOLEAN :
          parser = [status |-> "compiling", op |-> op, position |-> position,
                    distance |-> distance, overflow_checks |-> overflow_checks,
                    operand |-> 0, index |-> 0, code_len |-> 0, ip |-> 0]
    /\ ht = Idle
    /\ scan = Idle
    /\ vm = Idle

\* patch_jump / emit_loop: the instruction with its operand, or the compile
\* error; the function's code ends with at least Nil and Return behind it
JumpEmit ==
    /\ parser.status = "compiling"
    /\ LET code_len == parser.position + parser.distance
           length == jump_length(code_len, parser.position)
       IN parser' = IF length = -1 THEN [parser EXCEPT !.status = "rejected"]
                    ELSE [parser EXCEPT !.status = "emitted", !.operand = length,
                                        !.index = IF parser.op = "Loop" THEN code_len
                                                  ELSE parser.position,
                                        !.code_len = code_len + 3]
    /\ UNCHANGED notParser

\* interpret_inner on the instruction (a JumpIfFalse that is taken)
JumpExecute ==
    /\ parser.status = "emitted"
    /\ LET ip == jump_ip(parser.op, parser.index + 1, parser.operand,
                         parser.overflow_checks)
       IN parser' = IF ip = -1 THEN [parser EXCEPT !.status = "panicked"]
                    ELSE [parser EXCEPT !.status = "executed", !.ip = ip]
    /\ UNCHANGED notParser

JumpNext == JumpEmit \/ JumpExecute

SpecJump == JumpInit /\ [][JumpNext]_vars

\* C7: executing a jump instruction the compiler emitted, with any operand up
\* to 65535, sets the ip to an index inside the function's code: the index
\* of the instruction plus the operand for Jump and a taken JumpIfFalse, the
\* index of the Loop minus the operand for Loop; the operand arithmetic does
\* not overflow.
C7_JumpTargets ==
    /\ parser.status # "panicked"
    /\ parser.status = "executed" =>
          /\ parser.ip = IF parser.op = "Loop" THEN parser.index - parser.operand
                         ELSE parser.index + parser.operand
          /\ parser.ip >= 0 /\ parser.ip < parser.code_len

\* the objects the object at r refers to: a Function's constants, a
\* Closure's function and upvalues, an Upvalue's closed value, a Class's
\* method-table values, an Instance's class and field values, a
\* BoundMethod's receiver and method
ObjRefs(values) == {values[i].n : i \in {j \in DOMAIN values : values[j].t = "obj"}}

TableValues_(t) ==
    [i \in 1..Len(t.entries) |-> IF t.entries[i].key # NoKey THEN t.entries[i].value ELSE Nil]

References(hp, r) ==
    LET obj == hp[r] IN
    CASE obj.kind = "Function" -> ObjRefs(obj.chunk.constants)
      [] obj.kind = "Closure" -> {obj.function} \cup {obj.upvalues[i] : i \in DOMAIN obj.upvalues}
      [] obj.kind = "Upvalue" -> ObjRefs(<<obj.closed>>)
      [] obj.kind = "Class" -> ObjRefs(TableValues_(obj.methods))
      [] obj.kind = "Instance" -> {obj.class} \cup ObjRefs(TableValues_(obj.fields))
      [] obj.kind = "BoundMethod" -> {obj.method} \cup ObjRefs(<<obj.receiver>>)
      [] OTHER -> {}

\* the root set: the stack values, the frames' closures, the open upvalues,
\* the globals and the init string
Roots(v) ==
    LET written == Len(v.stack) - StackBelow
        below == IF v.stack_top < written THEN v.stack_top ELSE written
        top == IF below < 0 THEN 0 ELSE below
        open == upvalue_list(v.gc.objs, v.open_upvalues)
    IN ObjRefs([i \in 1..top |-> v.stack[i + StackBelow]])
       \cup {v.frames[i].closure : i \in 1..v.frame_count}
       \cup {open[i] : i \in DOMAIN open}
       \cup ObjRefs(TableValues_(v.globals))
       \cup ObjRefs([i \in 1..Len(v.globals.entries) |-> v.globals.entries[i].key])
       \cup ObjRefs(<<v.init_string>>)

RECURSIVE ReachableFrom(_, _)
ReachableFrom(hp, set) ==
    LET more == set \cup UNION {References(hp, r) : r \in set} IN
    IF more = set THEN set ELSE ReachableFrom(hp, more)

\* C2: a collection never frees an object that is reachable from the root
\* set through the per-kind references: no step frees an object that is
\* reachable from the roots when the step is done.
C2_CollectionKeepsReachable ==
    [][\A r \in ReachableFrom(vm'.gc.objs, Roots(vm')) :
          (r <= Len(vm.gc.objs) /\ ~vm.gc.objs[r].freed) => ~vm'.gc.objs[r].freed]_vars

\* C5: in every state of the VM frame_count is at most FRAMES_MAX: a call
\* that would push a frame beyond it fails with "Stack overflow" and pushes
\* no frame.
C5_FrameCountAtMostFramesMax ==
    /\ vm.frame_count <= FRAMES_MAX
    /\ (vm.frame_count = FRAMES_MAX /\ vm.status = "ready") =>
           (vm.result = "RuntimeError" /\ vm.msg.msg = "Stack overflow")

\* the value in the stack cell at offset i, as a read of that memory gives it
Cell(v, i) == deref(v, i).val

\* the upvalue objects of the heap
Upvalues(v) == {u \in 1..Len(v.gc.objs) : v.gc.objs[u].kind = "Upvalue"}

\* the instruction the next step of the running VM executes, and the upvalue
\* of the current closure it names
NextOp(v) == chunk(v).code[current_frame(v).ip + 1]

NamedUpvalue(v) == node(v, current_frame(v).closure).upvalues[NextOp(v).a + 1]

AtUpvalueOp(v, op, u) ==
    /\ v.status = "running"
    /\ current_frame(v).ip < Len(chunk(v).code)
    /\ NextOp(v).op = op
    /\ NamedUpvalue(v) = u

\* C6: a step that closes an upvalue gives it the value its stack slot holds
\* at that moment and retargets it to its own storage; a closed upvalue stays
\* closed and keeps its value over every step except a SetUpvalue through it,
\* which stores the top of the stack; GetUpvalue through a closed upvalue
\* pushes that value.
C6_ClosedUpvalueHoldsSlotValue ==
    [][\A u \in {w \in Upvalues(vm) : ~vm'.gc.objs[w].freed} :
          LET old == vm.gc.objs[u]
              new == vm'.gc.objs[u]
          IN /\ (old.location # Closed /\ new.location = Closed) =>
                    new.closed = Cell(vm, old.location)
             /\ old.location = Closed =>
                    /\ new.location = Closed
                    /\ new.closed # old.closed =>
                          /\ AtUpvalueOp(vm, "SetUpvalue", u)
                          /\ new.closed = Cell(vm, vm.stack_top - 1)
             /\ (old.location = Closed /\ AtUpvalueOp(vm, "GetUpvalue", u)
                   /\ vm'.status = "running") =>
                    /\ vm'.stack_top = vm.stack_top + 1
                    /\ Cell(vm', vm'.stack_top - 1) = old.closed]_vars

\* a GetUpvalue has just pushed the value of an upvalue that was closed, and
\* written through, before
C6_Witness ==
    /\ vm.status = "running"
    /\ current_frame(vm).ip >= 1
    /\ chunk(vm).code[current_frame(vm).ip].op = "GetUpvalue"
    /\ LET u == node(vm, node(vm, current_frame(vm).closure).upvalues[
                       chunk(vm).code[current_frame(vm).ip].a + 1])
       IN /\ u.location = Closed
          /\ ~u.freed
          /\ u.closed = Number(2, 1)
          /\ Cell(vm, vm.stack_top - 1) = u.closed

(***************************************************************************)
(* String interning on the heap of one VM: strings are allocated through   *)
(* VM::alloc and kept on the stack, popped, and collected.                 *)
(***************************************************************************)
\* the contents allocated: the first InternContents of KeyBytes, of which
\* "3", "12" and "23" collide in a table of capacity 8
InternContents == 2
MaxInternAllocs == 3
MaxInternStack == 1

\* the live String object with these bytes that a walk of the object list
\* finds, 0 when there is none
LiveString(gc, bytes) ==
    LET same == SelectSeq(gc.head, LAMBDA r : gc.objs[r].kind = "String"
                                                /\ gc.objs[r].string = bytes)
    IN IF same = <<>> THEN 0 ELSE same[1]

InternInit ==
    /\ \E stress_gc \in BOOLEAN :
          vm = [Fresh(stress_gc, TRUE) EXCEPT
                   !.src = [bytes |-> <<>>, ref |-> 0, existed |-> 0, before |-> 0]]
    /\ ht = Idle
    /\ scan = Idle
    /\ parser = Idle

\* let s = self.alloc(string); self.push(Value::Obj(s)), as Constant and
\* plus_operator leave a string on the stack; src records the call
InternAlloc ==
    /\ vm.status = "ready"
    /\ vm.stack_top < MaxInternStack
    /\ Len(vm.gc.objs) < Len(VM_new(FALSE, TRUE).gc.objs) + MaxInternAllocs
    /\ \E k \in 1..InternContents, outcome \in UbOutcomes :
          LET a == alloc([vm EXCEPT !.ub = FALSE],
                         [kind |-> "String", string |-> KeyBytes[k]])
              pushed == push(a, Obj(a.val))
              \* the object a collection in alloc leaves alive is the one
              \* that exists when the string is looked up
              before == IF vm.stress_gc THEN collect_garbage(vm).gc ELSE vm.gc
          IN vm' = [pushed EXCEPT
                       !.status = IF pushed.ub /\ outcome = "crash" THEN "crashed" ELSE @,
                       !.src = [bytes |-> KeyBytes[k], ref |-> a.val,
                                existed |-> LiveString(before, KeyBytes[k]),
                                before |-> Len(vm.gc.objs)]]
    /\ UNCHANGED notVm

InternPop ==
    /\ vm.status = "ready"
    /\ vm.stack_top > 0
    /\ vm' = [pop(vm) EXCEPT !.ub = FALSE]
    /\ UNCHANGED notVm

InternCollect ==
    /\ vm.status = "ready"
    /\ \E outcome \in UbOutcomes :
          LET c == collect_garbage([vm EXCEPT !.ub = FALSE]) IN
          vm' = [c EXCEPT !.status = IF c.ub /\ outcome = "crash" THEN "crashed" ELSE @]
    /\ UNCHANGED notVm

InternNext == InternAlloc \/ InternPop \/ InternCollect

SpecIntern == InternInit /\ [][InternNext]_vars

\* C3: two live String objects of the heap are the same object if and only
\* if their contents are byte-equal, and the allocation of a content that a
\* live String had returns that String and creates no object.
C3_InternedIffByteEqual ==
    LET live == {r \in {vm.gc.head[i] : i \in 1..Len(vm.gc.head)} :
                    vm.gc.objs[r].kind = "String"}
    IN /\ \A a, b \in live : (vm.gc.objs[a].string = vm.gc.objs[b].string) <=> a = b
       /\ vm.src.bytes # <<>> =>
             /\ vm.gc.objs[vm.src.ref].kind = "String"
             /\ vm.gc.objs[vm.src.ref].string = vm.src.bytes
             /\ vm.src.existed # 0 =>
                   /\ vm.src.ref = vm.src.existed
                   /\ Len(vm.gc.objs) = vm.src.before
             /\ vm.src.existed = 0 => Len(vm.gc.objs) = vm.src.before + 1

\* an allocation has returned the live String it found behind a tombstone:
\* the probe of the content starts at a tombstone of the intern table
C3_Witness ==
    /\ vm.status = "ready"
    /\ vm.src.bytes # <<>>
    /\ vm.src.existed # 0
    /\ vm.src.ref = vm.src.existed
    /\ is_tombstone(vm.gc.strings.entries[
           HashMod(hash_str(vm.src.bytes), vm.gc.strings.capacity) + 1])


(***************************************************************************)
(* The locals of one compiler, driven as the tests of compiler.rs and the  *)
(* parser drive them: scopes begin and end, a variable is declared         *)
(* (parse_variable), read while its initializer is compiled               *)
(* (named_variable) and defined at the end of its declaration             *)
(* (define_variable).  Only the latest local can be uninitialized, since   *)
(* an initializer declares nothing.  An Err ends the run.                  *)
(***************************************************************************)
LocalNames == {<<"a">>, <<"b">>}
MaxLocals == 3
MaxScopeDepth == 2
MaxLocalsCode == 3

\* the latest local is declared and not yet defined
Pending(compiler) ==
    compiler.locals # <<>> /\ compiler.locals[Len(compiler.locals)].depth = -1

LocalsState(p, call, name) ==
    [p |-> p, status |-> IF p.res = "ok" THEN "declaring" ELSE "failed",
     call |-> call, name |-> name]

LocalsInit ==
    /\ parser = LocalsState(Parser_new(<<>>, Gc_new), "new", <<>>)
    /\ ht = Idle
    /\ scan = Idle
    /\ vm = Idle

LocalsBeginScope ==
    /\ parser.status = "declaring"
    /\ ~Pending(current(parser.p))
    /\ current(parser.p).scope_depth < MaxScopeDepth
    /\ parser' = LocalsState(begin_scope(parser.p), "begin_scope", <<>>)
    /\ UNCHANGED notParser

LocalsEndScope ==
    /\ parser.status = "declaring"
    /\ ~Pending(current(parser.p))
    /\ current(parser.p).scope_depth > 0
    /\ Len(current(parser.p).chunk.code) < MaxLocalsCode
    /\ parser' = LocalsState(on_current(parser.p, end_scope(current(parser.p), <<0, 0>>)),
                             "end_scope", <<>>)
    /\ UNCHANGED notParser

LocalsDeclare ==
    /\ parser.status = "declaring"
    /\ ~Pending(current(parser.p))
    /\ current(parser.p).scope_depth > 0
    /\ Len(current(parser.p).locals) <= MaxLocals
    /\ \E name \in LocalNames :
          parser' = LocalsState(declare_variable(parser.p, name, <<0, 0>>),
                                "declare_variable", name)
    /\ UNCHANGED notParser

LocalsDefine ==
    /\ parser.status = "declaring"
    /\ Pending(current(parser.p))
    /\ parser' = LocalsState(define_variable(parser.p, -1, <<0, 0>>), "define_variable",
                             <<>>)
    /\ UNCHANGED notParser

LocalsRead ==
    /\ parser.status = "declaring"
    /\ Len(current(parser.p).chunk.code) < MaxLocalsCode
    /\ \E name \in LocalNames :
          parser' = LocalsState(named_variable(parser.p, name, TRUE, <<0, 0>>),
                                "named_variable", name)
    /\ UNCHANGED notParser

LocalsNext ==
    LocalsBeginScope \/ LocalsEndScope \/ LocalsDeclare \/ LocalsDefine \/ LocalsRead

SpecLocals == LocalsInit /\ [][LocalsNext]_vars

\* the positions of the locals with the name, and the latest of them
Named(compiler, name) == {i \in 1..Len(compiler.locals) : compiler.locals[i].name = name}

Innermost(compiler, name) ==
    CHOOSE i \in Named(compiler, name) : \A j \in Named(compiler, name) : j <= i

\* the instruction a call wrote at the end of the chunk
Written(before, after) ==
    LET code == current(after).chunk.code IN
    IF Len(code) = Len(current(before).chunk.code) + 1 THEN <<code[Len(code)]>> ELSE <<>>

\* C21: a read of a name that some local has resolves to the innermost local
\* of that name: if that local is declared and not yet initialized the read
\* fails with "Can't read local variable in its own initializer" and writes
\* nothing, otherwise it writes GetLocal of that local's slot; resolve_local
\* gives that slot and whether the local is initialized.
C21_ReadResolvesInnermostLocal ==
    [][(parser'.call = "named_variable" /\ Named(current(parser.p), parser'.name) # {}) =>
          LET compiler == current(parser.p)
              i == Innermost(compiler, parser'.name)
              resolved == resolve_local(compiler, parser'.name)
          IN /\ resolved = [slot |-> i - 1, initialized |-> compiler.locals[i].depth # -1]
             /\ IF compiler.locals[i].depth = -1
                THEN /\ parser'.status = "failed"
                     /\ parser'.p.msg.msg = "Can't read local variable in its own initializer"
                     /\ Written(parser.p, parser'.p) = <<>>
                ELSE /\ parser'.status = "declaring"
                     /\ Written(parser.p, parser'.p) = <<Op("GetLocal", i - 1, 0)>>]_vars

\* a local was read in its own initializer while an outer, initialized local
\* has the same name
C21_Witness ==
    /\ parser.status = "failed"
    /\ parser.call = "named_variable"
    /\ parser.p.msg.msg = "Can't read local variable in its own initializer"
    /\ Cardinality(Named(current(parser.p), parser.name)) = 2

(***************************************************************************)
(* Parser::compile on the statements `<left> = 1;`: the text to the left   *)
(* of the `=` is every text of up to MaxTargetLen characters.              *)
(***************************************************************************)
TargetAlphabet == {"a", ".", "(", ")", "+", "-", "!"}
MaxTargetLen == 4

\* the text to the left of the `=` of the statement being compiled
Left(src) == SubSeq(src, 1, Len(src) - 3)

AssignInit ==
    /\ \E left \in Sources(TargetAlphabet, MaxTargetLen) :
          parser = [p |-> Parser_new(left \o <<"=", "1", ";">>, Gc_new),
                    status |-> "compiling"]
    /\ ht = Idle
    /\ scan = Idle
    /\ vm = Idle

SpecAssign == AssignInit /\ [][CompileNext]_vars

\* the nesting depth of parentheses in front of each character of a text
RECURSIVE ParenDepth(_, _)
ParenDepth(text, i) ==
    IF i <= 1 THEN 0
    ELSE ParenDepth(text, i - 1) + CASE text[i - 1] = "(" -> 1
                                     [] text[i - 1] = ")" -> -1
                                     [] OTHER -> 0

\* a variable or property expression: it begins with a name, ends with a
\* name, and has no operator outside of parentheses
IsTarget(text) ==
    /\ text # <<>>
    /\ text[1] = "a"
    /\ text[Len(text)] = "a"
    /\ \A i \in 1..Len(text) : text[i] \in {"+", "-", "!"} => ParenDepth(text, i) > 0

\* the text is an expression: the statement `<text>;` compiles
IsExpression(text) == Parser_compile(text \o <<";">>, Gc_new).res = "Ok"

\* C22: `<left> = 1;` compiles only when left is a variable or property
\* expression: for every other expression to the left of the `=` (a binary,
\* parenthesised, call or unary expression) compile returns Err and the
\* errors include "Invalid assignment target".
C22_AssignmentOnlyToTargets ==
    (parser.status \in {"Ok", "Err"} /\ IsExpression(Left(parser.p.sc.src))
       /\ ~IsTarget(Left(parser.p.sc.src))) =>
        /\ parser.status = "Err"
        /\ \E i \in DOMAIN parser.p.errors :
              parser.p.errors[i].msg = "Invalid assignment target"

(***************************************************************************)
(* Captured variables: the upvalues the closures of the VM share, and the  *)
(* open-upvalue list.                                                      *)
(***************************************************************************)
\* the upvalue objects that still point at a stack slot
OpenUpvalues(v) ==
    {u \in Upvalues(v) : ~v.gc.objs[u].freed /\ v.gc.objs[u].location # Closed}

\* the closures of the heap
Closures(v) ==
    {c \in 1..Len(v.gc.objs) : v.gc.objs[c].kind = "Closure" /\ ~v.gc.objs[c].freed}

\* the step from v executes the instruction op and the run goes on
Executes(v, w, op) ==
    /\ v.status = "running"
    /\ current_frame(v).ip < Len(chunk(v).code)
    /\ NextOp(v).op = op
    /\ w.status = "running"

\* C23: the closure a Closure instruction creates has, for each local it
\* captures, the upvalue that is open on that slot when one exists, and a
\* new upvalue only when none exists, so that no two open upvalues point at
\* one slot; a closure keeps its upvalue objects for good; a SetUpvalue
\* through an open upvalue writes the slot and a GetUpvalue through it reads
\* the slot, which the enclosing function and every other closure on that
\* upvalue read too.
C23_CapturesShareOneUpvalue ==
    [][/\ \A u1, u2 \in OpenUpvalues(vm') :
             vm'.gc.objs[u1].location = vm'.gc.objs[u2].location => u1 = u2
       /\ \A c \in Closures(vm) \cap Closures(vm') :
             vm'.gc.objs[c].upvalues = vm.gc.objs[c].upvalues
       /\ Executes(vm, vm', "Closure") =>
             LET fn == node(vm, chunk(vm).constants[NextOp(vm).a + 1].n)
                 created == node(vm', Cell(vm', vm'.stack_top - 1).n)
             IN \A i \in DOMAIN fn.upvalues :
                   fn.upvalues[i].is_local =>
                      LET local == current_frame(vm).slots + fn.upvalues[i].index
                          existing == {u \in OpenUpvalues(vm) :
                                          vm.gc.objs[u].location = local}
                      IN /\ vm'.gc.objs[created.upvalues[i]].location = local
                         /\ IF existing # {} THEN created.upvalues[i] \in existing
                            ELSE created.upvalues[i] > Len(vm.gc.objs)
       /\ \A u \in OpenUpvalues(vm) :
             /\ (AtUpvalueOp(vm, "SetUpvalue", u) /\ vm'.status = "running") =>
                    Cell(vm', vm.gc.objs[u].location) = Cell(vm, vm.stack_top - 1)
             /\ (AtUpvalueOp(vm, "GetUpvalue", u) /\ vm'.status = "running") =>
                    Cell(vm', vm'.stack_top - 1) = Cell(vm, vm.gc.objs[u].location)]_vars

\* two closures hold one upvalue, it is closed, and a GetUpvalue has just
\* read from it the value that was written through the other closure after
\* the closing
C23_Witness ==
    /\ vm.status = "running"
    /\ current_frame(vm).ip >= 1
    /\ chunk(vm).code[current_frame(vm).ip].op = "GetUpvalue"
    /\ \E u \in Upvalues(vm) :
          /\ vm.gc.objs[u].location = Closed
          /\ vm.gc.objs[u].closed = Number(3, 1)
          /\ Cell(vm, vm.stack_top - 1) = Number(3, 1)
          /\ \E c1, c2 \in Closures(vm) :
                /\ c1 # c2
                /\ vm.gc.objs[c1].upvalues = <<u>>
                /\ vm.gc.objs[c2].upvalues = <<u>>

\* C24: the open-upvalue list holds open upvalues only and is strictly
\* descending by stack address, after every step.
C24_OpenListStrictlyDescending ==
    LET open == upvalue_list(vm.gc.objs, vm.open_upvalues) IN
    /\ \A i \in DOMAIN open : open[i] \in OpenUpvalues(vm)
    /\ \A i \in 1..(Len(open) - 1) :
          vm.gc.objs[open[i]].location > vm.gc.objs[open[i + 1]].location

\* three upvalues are open, the last of them inserted between the others
C24_Witness ==
    LET open == upvalue_list(vm.gc.objs, vm.open_upvalues) IN
    /\ Len(open) = 3
    /\ open[2] > open[1]
    /\ open[2] > open[3]

(***************************************************************************)
(* VM::alloc called over and over, as a program that builds strings calls  *)
(* it: each call allocates a string that no call allocated before and      *)
(* that nothing holds afterwards, and the native gc() collects in between. *)
(***************************************************************************)
MaxAllocs == 12

\* the string of n bytes "x"
Xs(n) == [i \in 1..n |-> 120]

\* the objects allocated since VM::new
Allocated(v) == Len(v.gc.objs) - Len(VM_new(FALSE, TRUE).gc.objs)

Called(call, gc) ==
    [call |-> call, bytes_allocated |-> gc.bytes_allocated, next_gc |-> gc.next_gc]

AllocInit ==
    /\ \E stress_gc \in BOOLEAN :
          vm = [Fresh(stress_gc, TRUE) EXCEPT !.src = Called("new", Gc_new)]
    /\ ht = Idle
    /\ scan = Idle
    /\ parser = Idle

\* the end of a call; src records the call and the heap it began with
AllocEnds(v, outcome, call) ==
    [v EXCEPT !.status = IF v.ub /\ outcome = "crash" THEN "crashed" ELSE @,
              !.src = Called(call, vm.gc)]

\* self.alloc(string) with the result dropped
AllocDrop ==
    /\ vm.status = "ready"
    /\ Allocated(vm) < MaxAllocs
    /\ \E outcome \in UbOutcomes :
          vm' = AllocEnds(alloc([vm EXCEPT !.ub = FALSE],
                                [kind |-> "String", string |-> Xs(Allocated(vm) + 1)]),
                          outcome, "alloc")
    /\ UNCHANGED notVm

\* the native gc()
AllocCollect ==
    /\ vm.status = "ready"
    /\ \E outcome \in UbOutcomes :
          vm' = AllocEnds(collect_garbage([vm EXCEPT !.ub = FALSE]), outcome, "gc")
    /\ UNCHANGED notVm

AllocNext == AllocDrop \/ AllocCollect

SpecAlloc == AllocInit /\ [][AllocNext]_vars

\* the step is a call of VM::alloc that returned
IsAlloc(v, w) == v.status = "ready" /\ w.status = "ready" /\ w.src.call = "alloc"

\* the heap after the call is the heap a collection before the allocation
\* leaves: the threshold is twice the bytes the collection left
Collected(v, w) == w.gc.next_gc = 2 * (w.gc.bytes_allocated - SizeOfNode)

\* the heap after the call is the heap of before with the new object
NotCollected(v, w) ==
    /\ w.gc.next_gc = v.gc.next_gc
    /\ w.gc.bytes_allocated = v.gc.bytes_allocated + SizeOfNode
    /\ \A r \in 1..Len(v.gc.objs) : w.gc.objs[r].freed = v.gc.objs[r].freed

\* C25 as the spec states it: an allocation collects first when the VM is in
\* stress mode or bytes_allocated is greater than or equal to the threshold,
\* and collects nothing otherwise.
C25_CollectsAtOrAboveThreshold ==
    [][IsAlloc(vm, vm') =>
          IF vm.stress_gc \/ vm.gc.bytes_allocated >= vm.gc.next_gc
          THEN Collected(vm, vm') ELSE NotCollected(vm, vm')]_vars

\* C25 amended: an allocation collects first when the VM is in stress mode or
\* bytes_allocated is greater than the threshold, and collects nothing
\* otherwise: at the threshold itself no collection runs.
C25_CollectsAboveThreshold ==
    [][IsAlloc(vm, vm') =>
          IF vm.stress_gc \/ vm.gc.bytes_allocated > vm.gc.next_gc
          THEN Collected(vm, vm') ELSE NotCollected(vm, vm')]_vars

\* without stress mode an allocation that began above the threshold has
\* just collected and freed the object of the allocation before it
C25_Witness ==
    /\ vm.status = "ready"
    /\ ~vm.stress_gc
    /\ vm.src.call = "alloc"
    /\ vm.src.bytes_allocated > vm.src.next_gc
    /\ vm.gc.next_gc = 2 * (vm.gc.bytes_allocated - SizeOfNode)
    /\ ~vm.gc.objs[Len(vm.gc.objs)].freed
    /\ vm.gc.objs[Len(vm.gc.objs) - 1].freed

(***************************************************************************)
(* The allocations of the VM that can collect, each with the VM as it is   *)
(* when VM::alloc is called and the objects the caller goes on to use: the *)
(* points of a call are records [at, held].                                *)
(***************************************************************************)
Point(at, held) == [at |-> at, held |-> held]

\* the objects of the heap that are not freed
Live(gc) == {r \in 1..Len(gc.objs) : ~gc.objs[r].freed}

\* define_native: the name is allocated, pushed, then the native; everything
\* VM::new has created so far is in use
NativePoints(v, name) ==
    LET n == alloc(v, [kind |-> "String", string |-> Bytes(name)])
        pushed_name == push(n, Obj(n.val))
    IN <<Point(v, Live(v.gc)), Point(pushed_name, Live(pushed_name.gc))>>

\* the VM between the calls of define_native in VM::new
NewPoints(stress_gc) ==
    LET clock == <<"c", "l", "o", "c", "k">>
        heapdump == <<"h", "e", "a", "p", "d", "u", "m", "p">>
        init == VM_fields(stress_gc, TRUE)
        first == define_native(init, clock, "clock")
        second == define_native(first, heapdump, "heapdump")
    IN NativePoints(init, clock) \o NativePoints(first, heapdump)
          \o NativePoints(second, <<"g", "c">>)

\* interpret: the function is pushed, then the closure is allocated
InterpretPoints(v, program) ==
    LET compiled == IF "src" \in DOMAIN program THEN Parser_compile(program.src, v.gc)
                    ELSE assemble(v.gc, program.assembly)
        f == add_to_gc(compiled.gc, compiled.function)
        pushed == push([v EXCEPT !.gc = f.gc], Obj(f.ref))
    IN IF compiled.res = "Ok" THEN <<Point(pushed, ReachableFrom(f.gc.objs, {f.ref}))>>
       ELSE <<>>

\* handle_closure: one allocation per local captured that has no open
\* upvalue yet, then the allocation of the closure; the function and the
\* upvalues gathered so far are in use
RECURSIVE ClosurePoints(_, _, _, _)
ClosurePoints(w, fnref, i, acc) ==
    LET fn == node(w, fnref) IN
    IF i > Len(fn.upvalues) THEN <<Point(w, acc \cup {fnref})>>
    ELSE LET u == fn.upvalues[i] IN
         IF u.is_local
         THEN LET c == capture_upvalue(w, current_frame(w).slots + u.index) IN
              <<Point(w, acc \cup {fnref})>>
                  \o ClosurePoints(c, fnref, i + 1, acc \cup {c.val})
         ELSE ClosurePoints(w, fnref, i + 1,
                  acc \cup {node(w, current_frame(w).closure).upvalues[u.index + 1]})

\* the allocation points of the step from v to w
StepPoints(v, w) ==
    CASE v.status = "ready" /\ w.calls = v.calls + 1 -> InterpretPoints(v, w.src)
      [] v.status = "running" /\ current_frame(v).ip < Len(chunk(v).code)
           /\ NextOp(v).op = "Closure" ->
            ClosurePoints(v, chunk(v).constants[NextOp(v).a + 1].n, 1, {})
      [] OTHER -> <<>>

Rooted(points) ==
    \A i \in DOMAIN points :
        points[i].held \subseteq ReachableFrom(points[i].at.gc.objs, Roots(points[i].at))

PoolKeys(gc) ==
    {gc.strings.entries[i].key : i \in 1..Len(gc.strings.entries)} \ {NoKey}

\* C27: in every state each key of the intern pool refers to a String
\* that is not freed: a collection removes the entries of the strings it
\* sweeps, so the lookup of an allocation finds live strings only and the
\* string an allocation returns is not freed.
C27_PoolKeysSurviveSweep ==
    /\ \A key \in PoolKeys(vm.gc) :
          /\ key.t = "obj"
          /\ vm.gc.objs[key.n].kind = "String"
          /\ ~vm.gc.objs[key.n].freed
    /\ vm.stack_top > 0 => ~vm.gc.objs[Cell(vm, vm.stack_top - 1).n].freed

\* a collection has swept a string and removed its entry from the pool,
\* and a string that shares its probe sequence is still interned
C27_Witness ==
    /\ \E r \in 1..Len(vm.gc.objs) : vm.gc.objs[r].kind = "String" /\ vm.gc.objs[r].freed
    /\ \E i \in 1..Len(vm.gc.strings.entries) : is_tombstone(vm.gc.strings.entries[i])
    /\ vm.stack_top > 0
    /\ vm.src.bytes # <<>>

(***************************************************************************)
(* Invoke and the sequence it fuses                                        *)
(***************************************************************************)
RECURSIVE push_each(_, _)
push_each(v, values) ==
    IF values = <<>> THEN v ELSE push_each(push(v, Head(values)), Tail(values))

\* GetProperty(index) on the receiver before the arguments are pushed, then
\* the arguments and Call(arg_count), from the state s of an Invoke
GetPropertyThenCall(s, index, arg_count, now) ==
    LET args == [i \in 1..arg_count |-> Cell(s, s.stack_top - arg_count + i - 1)]
        received == [s EXCEPT !.stack_top = @ - arg_count]
        got == get_property(received, index)
        pushed == push_each(got, args)
        callee == VM_peek(pushed, arg_count)
    IN IF got.res # "ok" THEN got ELSE call_value(callee, callee.val, arg_count, now)

\* the call frames, the stack contents and the outcome of a and b are the same
SameFramesAndStack(a, b) ==
    /\ a.res = b.res
    /\ a.ub = b.ub
    /\ a.res = "ok" =>
          /\ a.frame_count = b.frame_count
          /\ \A i \in 1..a.frame_count : a.frames[i] = b.frames[i]
          /\ a.stack_top = b.stack_top
          /\ \A i \in 0..(a.stack_top - 1) : Cell(a, i) = Cell(b, i)

\* the VM is about to execute Invoke
AtInvoke(v) ==
    /\ v.status = "running"
    /\ current_frame(v).ip < Len(chunk(v).code)
    /\ NextOp(v).op = "Invoke"

\* C28: wherever the VM executes Invoke{name, argc}, the call frames, the
\* stack and the outcome are those of GetProperty(name) on the receiver
\* followed by the arguments and Call(argc).
C28_InvokeIsGetPropertyThenCall ==
    AtInvoke(vm) =>
        LET s == [vm EXCEPT !.frames[vm.frame_count].ip = @ + 1, !.ub = FALSE]
            op == NextOp(vm)
        IN \A now \in ClockReadings :
              SameFramesAndStack(invoke(s, chunk(vm).constants[op.a + 1], op.b, now),
                                 GetPropertyThenCall(s, op.a, op.b, now))

(***************************************************************************)
(* Call and Return                                                         *)
(***************************************************************************)
\* C29: a Call(argc) that pushes a frame puts the frame's base at the
\* callee slot, argc + 1 cells below the top, and leaves the stack as it
\* is; a Return to a caller leaves the cells below the base as they are,
\* puts the returned value at the base as the top of the stack, drops the
\* frame and leaves the caller's frames as they are, and every upvalue that
\* was open on a slot at or above the base is closed with the value of its
\* slot.
C29_ReturnLeavesCallerStackAndResult ==
    [][/\ (Executes(vm, vm', "Call") /\ vm'.frame_count = vm.frame_count + 1) =>
             /\ current_frame(vm').slots = vm.stack_top - NextOp(vm).a - 1
             /\ current_frame(vm').ip = 0
             /\ vm'.stack_top = vm.stack_top
             /\ \A i \in 0..(current_frame(vm').slots - 1) : Cell(vm', i) = Cell(vm, i)
       /\ (Executes(vm, vm', "Return") /\ ~vm'.ub) =>
             LET base == current_frame(vm).slots IN
             /\ vm'.frame_count = vm.frame_count - 1
             /\ \A i \in 1..vm'.frame_count : vm'.frames[i] = vm.frames[i]
             /\ vm'.stack_top = base + 1
             /\ Cell(vm', base) = Cell(vm, vm.stack_top - 1)
             /\ \A i \in 0..(base - 1) : Cell(vm', i) = Cell(vm, i)
             /\ \A u \in OpenUpvalues(vm) :
                   IF vm.gc.objs[u].location >= base
                   THEN /\ vm'.gc.objs[u].location = Closed
                        /\ vm'.gc.objs[u].closed = Cell(vm, vm.gc.objs[u].location)
                   ELSE vm'.gc.objs[u] = vm.gc.objs[u]
             /\ \A u \in OpenUpvalues(vm') : vm'.gc.objs[u].location < base]_vars

\* the call with two arguments has returned above the local of the caller:
\* the closure it returned is the top of the stack, over the local, and
\* both upvalues of the closure, on the first argument and on a local of
\* the callee, are closed
C29_Witness ==
    /\ vm.status = "running"
    /\ vm.src = ArgumentsProgram
    /\ vm.frame_count = 1
    /\ current_frame(vm).ip >= 1
    /\ chunk(vm).code[current_frame(vm).ip] = Op("Call", 2, 0)
    /\ vm.stack_top = 3
    /\ Cell(vm, 1) = Num(5)
    /\ Cell(vm, 2).t = "obj"
    /\ LET returned == node(vm, Cell(vm, 2).n) IN
       /\ returned.kind = "Closure"
       /\ Len(returned.upvalues) = 2
       /\ node(vm, returned.upvalues[1]).location = Closed
       /\ node(vm, returned.upvalues[1]).closed = Num(1)
       /\ node(vm, returned.upvalues[2]).location = Closed
       /\ node(vm, returned.upvalues[2]).closed = Num(3)

(***************************************************************************)
(* and, or: print statements over chains of operands joined by and and or  *)
(* are compiled and run on a fresh VM.                                     *)
(***************************************************************************)
MaxOperands == 3

\* the operands: two falsey and two truthy values, and as the last operand
\* also -nil, whose evaluation is a runtime error
LogicOperands == { <<"n", "i", "l">>, <<"f", "a", "l", "s", "e">>, <<"0">>,
                   <<"t", "r", "u", "e">> }
Failing == <<"-", "n", "i", "l">>
LogicOperators == { <<"a", "n", "d">>, <<"o", "r">> }

\* the chains of n operands: [operands, operators]
Chains(n) ==
    { [operands |-> front \o <<last>>, operators |-> ops] :
        front \in [1..(n - 1) -> LogicOperands],
        last \in LogicOperands \cup {Failing},
        ops \in [1..(n - 1) -> LogicOperators] }

RECURSIVE ChainText(_, _)
ChainText(chain, i) ==
    IF i = Len(chain.operands) THEN chain.operands[i]
    ELSE chain.operands[i] \o <<" ">> \o chain.operators[i] \o <<" ">> \o ChainText(chain, i + 1)

LogicInit ==
    /\ \E n \in 2..MaxOperands : \E chain \in Chains(n) :
          vm = [Fresh(FALSE, TRUE) EXCEPT
                   !.src = [src |-> PrintStatement(ChainText(chain, 1)),
                            operands |-> chain.operands, operators |-> chain.operators]]
    /\ ht = Idle
    /\ scan = Idle
    /\ parser = Idle

LogicInterpret ==
    /\ vm.status = "ready"
    /\ vm.calls = 0
    /\ \E now \in ClockReadings, outcome \in UbOutcomes :
          vm' = After(interpret([vm EXCEPT !.res = "ok", !.ub = FALSE], vm.src, now),
                      outcome)
    /\ UNCHANGED notVm

LogicNext == LogicInterpret \/ Step

SpecLogic == LogicInit /\ [][LogicNext]_vars

\* what the evaluation of an operand yields; Raised for the runtime error
Raised == [t |-> "raised", n |-> 0, d |-> 1]
OperandValue(text) ==
    CASE text = <<"n", "i", "l">> -> Nil
      [] text = <<"f", "a", "l", "s", "e">> -> Bool(FALSE)
      [] text = <<"t", "r", "u", "e">> -> Bool(TRUE)
      [] text = <<"0">> -> Num(0)
      [] OTHER -> Raised

\* the value of the chain from operand i on under the grammar
\*   or -> and ("or" and)*,  and -> operand ("and" operand)*
\* where an operand is evaluated only when the value is not decided yet
RECURSIVE AndValue(_, _)
AndValue(chain, i) ==
    LET a == OperandValue(chain.operands[i]) IN
    IF i = Len(chain.operands) \/ chain.operators[i] # <<"a", "n", "d">> THEN [val |-> a, at |-> i]
    ELSE IF a \in {Nil, Bool(FALSE), Raised}
         THEN [val |-> a, at |-> AndValue(chain, i + 1).at]
         ELSE AndValue(chain, i + 1)

RECURSIVE OrValue(_, _)
OrValue(chain, i) ==
    LET a == AndValue(chain, i) IN
    IF a.at = Len(chain.operands) THEN a.val
    ELSE IF a.val \in {Nil, Bool(FALSE)} THEN OrValue(chain, a.at + 1)
         ELSE a.val

\* C30: the code compiled for a chain of and and or leaves one value on the
\* stack where the expression stands, the value of the chain: for a and b
\* the value of a when a is falsey and else the value of b, for a or b the
\* value of a when a is truthy and else the value of b; an operand that
\* the value does not depend on is not evaluated, so its runtime error does
\* not happen.
C30_ShortCircuitValue ==
    LET expected == OrValue(vm.src, 1) IN
    /\ (vm.status = "running" /\ NextOp(vm).op = "Print") =>
          /\ vm.stack_top = 2
          /\ Cell(vm, 1) = expected
    /\ (vm.status = "ready" /\ vm.calls = 1) =>
          IF expected = Raised
          THEN vm.result = "RuntimeError" /\ vm.printer = <<>>
          ELSE vm.result = "Ok" /\ vm.printer = <<expected>>

\* a chain of three operands whose last operand fails when evaluated has
\* run to its end without evaluating it: 0 and true or -nil printed true
C30_Witness ==
    /\ vm.status = "ready"
    /\ vm.calls = 1
    /\ vm.result = "Ok"
    /\ vm.src.operands = << <<"0">>, <<"t", "r", "u", "e">>, Failing >>
    /\ vm.src.operators = << <<"a", "n", "d">>, <<"o", "r">> >>
    /\ vm.printer = << Bool(TRUE) >>

(***************************************************************************)
(* Panic-mode recovery: Parser::synchronize on the tokens behind an error. *)
(***************************************************************************)
MaxSyncTokens == 3

\* the words of the texts synchronize runs over and the token each scans to
SyncWords ==
    << <<"c", "l", "a", "s", "s">>, <<"f", "u", "n">>, <<"v", "a", "r">>,
       <<"f", "o", "r">>, <<"i", "f">>, <<"w", "h", "i", "l", "e">>,
       <<"p", "r", "i", "n", "t">>, <<"r", "e", "t", "u", "r", "n">>,
       <<";">>, <<"1">>, <<"+">>, <<"x">>, <<"@">> >>

SyncTypes ==
    <<"Class", "Fun", "Var", "For", "If", "While", "Print", "Return",
      "Semicolon", "Number", "Plus", "Identifier", "UnexpectedCharacter">>

StatementStarts == {"Class", "Fun", "Var", "For", "If", "While", "Print", "Return"}

\* the words separated by blanks
RECURSIVE SyncText(_)
SyncText(words) ==
    IF words = <<>> THEN <<>>
    ELSE SyncWords[Head(words)] \o <<" ">> \o SyncText(Tail(words))

\* the types of the tokens the scanner still yields
RECURSIVE TokensLeft(_)
TokensLeft(sc) ==
    LET r == Scanner_next(sc) IN
    IF r.item.k \notin {"ok", "err"} THEN <<>>
    ELSE <<r.item.type>> \o TokensLeft(r.sc)

\* the parser has recorded an error; these tokens are behind it
SyncInit ==
    /\ \E words \in Sources(DOMAIN SyncWords, MaxSyncTokens) \ {<<>>} :
          parser = [p |-> Parser_new(SyncText(words), Gc_new), status |-> "erred",
                    words |-> words]
    /\ ht = Idle
    /\ scan = Idle
    /\ vm = Idle

\* declaration's `self.synchronize()` after the error
SyncSynchronize ==
    /\ parser.status = "erred"
    /\ parser' = [parser EXCEPT !.p = synchronize(@), !.status = "synchronized"]
    /\ UNCHANGED notParser

SyncNext == SyncSynchronize

SpecSync == SyncInit /\ [][SyncNext]_vars

\* the tokens from the first that ends the recovery on: behind a semicolon,
\* at a statement start, none when there is neither
RECURSIVE RestAt(_, _)
RestAt(types, starts) ==
    CASE types = <<>> -> <<>>
      [] Head(types) = "Semicolon" -> Tail(types)
      [] Head(types) \in starts -> types
      [] OTHER -> RestAt(Tail(types), starts)

TypesOf(words) == [i \in DOMAIN words |-> SyncTypes[words[i]]]

\* C31: synchronize discards tokens until it has consumed a semicolon or the
\* next token is one of class, fun, var, for, if, while, print, return, and
\* stops there: what the scanner holds afterwards starts behind the first
\* semicolon or at the first of the eight keywords, whichever is first, so
\* none of the eight is discarded
C31_SynchronizeStopsAtStatementStart ==
    parser.status = "synchronized" =>
        TokensLeft(parser.p.sc) = RestAt(TypesOf(parser.words), StatementStarts)

\* the same with the seven keywords of the match in synchronize
C31_StopsAtTheSevenOfTheCode ==
    parser.status = "synchronized" =>
        TokensLeft(parser.p.sc) =
            RestAt(TypesOf(parser.words), StatementStarts \ {"Return"})

(***************************************************************************)
(* Growth of the HashTable and its load (hash_table.rs).                   *)
(***************************************************************************)
\* the indices (from 1) of the entries with a key, and of the tombstones
LiveSlots(t) == {i \in 1..Len(t.entries) : t.entries[i].key # NoKey}
Tombstones(t) == {i \in 1..Len(t.entries) : is_tombstone(t.entries[i])}

\* t2 is t grown by the insert of key k with value v
Regrown(t, t2, k, v) ==
    /\ t2.capacity = IF t.capacity = 0 THEN 8 ELSE 2 * t.capacity
    /\ Len(t2.entries) = t2.capacity
    /\ Tombstones(t2) = {}
    /\ t2.count = Cardinality(LiveSlots(t2))
    /\ {t2.entries[i].key : i \in LiveSlots(t2)}
          = {t.entries[i].key : i \in LiveSlots(t)} \cup {Obj(k)}
    /\ \A j \in Keys \ {k} :
          HashTable_get(KeyHeap, t2, Obj(j)) = HashTable_get(KeyHeap, t, Obj(j))
    /\ HashTable_get(KeyHeap, t2, Obj(k)) = v

\* C32: an insert into any table reached grows it exactly when count + 1 would exceed
\* 0.75 x capacity, from 0 to 8 and then doubling; the grown table holds no
\* tombstone, its count is its number of live keys, and every live key has
\* the value it had (the inserted key the value inserted)
C32_GrowthDropsTombstones ==
    \A k \in Keys, v \in TableValues :
       LET grown == HashTable_insert(KeyHeap, ht.table, Obj(k), v).table IN
       /\ grown.capacity # ht.table.capacity
             <=> 4 * (ht.table.count + 1) > 3 * ht.table.capacity
       /\ grown.capacity # ht.table.capacity => Regrown(ht.table, grown, k, v)

\* a table grown to 16 out of one of capacity 8 whose 6 counted slots held a
\* tombstone: fewer than 6 are counted now, and nothing has been deleted since
C32_Witness ==
    /\ ht.table.capacity = 16
    /\ ht.table.count = 5
    /\ Tombstones(ht.table) = {}
    /\ Cardinality(LiveSlots(ht.table)) = 5

\* the entries never used: no key and not a tombstone
NeverUsed(t) == (1..Len(t.entries)) \ (LiveSlots(t) \cup Tombstones(t))

\* C33: in every table reached count is the number of entries holding a key
\* or a tombstone and is at most 0.75 x capacity, so an allocated table has
\* an entry never used, and the probe loops of find_entry and find_string
\* end for every key and every string
C33_CountAndLoad ==
    LET t == ht.table IN
    /\ Len(t.entries) = t.capacity
    /\ t.count = Cardinality(LiveSlots(t) \cup Tombstones(t))
    /\ 4 * t.count <= 3 * t.capacity
    /\ t.capacity > 0 =>
          /\ NeverUsed(t) # {}
          /\ \A k \in 1..Len(KeyBytes) :
                /\ find_entry(KeyHeap, t.entries, t.capacity, Obj(k)) \in 0..(t.capacity - 1)
                /\ find_string(KeyHeap, t, KeyBytes[k]) \in {0, k}

\* a table at its load limit, two of its six counted entries tombstones
C33_Witness ==
    /\ ht.table.capacity = 8
    /\ ht.table.count = 6
    /\ Cardinality(Tombstones(ht.table)) = 2
    /\ Cardinality(LiveSlots(ht.table)) = 4

(***************************************************************************)
(* What interpret leaves behind in the VM for the next call.               *)
(***************************************************************************)
\* C34: when interpret has returned, with Ok or with an error, frame_count
\* is 0: no call frame of the program is left for a later interpret call
C34_NoFrameLeftAfterInterpret ==
    (vm.status = "ready" /\ vm.calls > 0) => vm.frame_count = 0

\* C35: when interpret has returned, with Ok or with an error, the list of
\* open upvalues is empty: no upvalue points into the value stack any more
C35_NoOpenUpvalueAfterInterpret ==
    (vm.status = "ready" /\ vm.calls > 0) => vm.open_upvalues = 0

(***************************************************************************)
(* The loop of Gc::sweep node by node (gc/mod.rs).  gc.head is the object  *)
(* list in its order, so the next field of the node at index i is the node *)
(* at index i + 1.  The walk yields the list it links and the nodes a      *)
(* field of which it reads after it has freed them.                        *)
(***************************************************************************)
RECURSIVE sweep_walk(_, _, _, _)
sweep_walk(gc, i, linked, read_freed) ==
    IF i > Len(gc.head) THEN [head |-> linked, read_freed |-> read_freed]
    ELSE LET o == gc.head[i] IN
         IF gc.objs[o].marked
         THEN \* previous = object; object = o.next
              sweep_walk(gc, i + 1, Append(linked, o), read_freed)
         ELSE \* self.free(unreached) drops the Box it returns, which frees
              \* the node; then object = o.as_ref().next reads the node
              sweep_walk(gc, i + 1, linked, read_freed \cup {o})

\* the heap of v as collect_garbage hands it to sweep
Traced(v) == trace_references(mark_roots(v))

\* C36: a sweep of the heap of any state reads no field of a node it has
\* freed, and the list it links holds exactly the marked nodes in the order
\* they had
C36_SweepReadsNoFreedNode ==
    vm.calls > 0 =>
        LET gc == Traced(vm)
            walk == sweep_walk(gc, 1, <<>>, {})
        IN /\ walk.read_freed = {}
           /\ walk.head = SelectSeq(gc.head, LAMBDA r : gc.objs[r].marked)
           /\ walk.head = sweep(gc).head

\* the list the walk links is the list of the marked nodes in their order
C36_SweepLinksTheSurvivors ==
    vm.calls > 0 =>
        LET gc == Traced(vm)
            walk == sweep_walk(gc, 1, <<>>, {})
        IN /\ walk.head = SelectSeq(gc.head, LAMBDA r : gc.objs[r].marked)
           /\ walk.head = sweep(gc).head
           /\ walk.read_freed =
                 {gc.head[i] : i \in 1..Len(gc.head)} \ {walk.head[i] : i \in 1..Len(walk.head)}

\* the bytes of the array VM::new allocates for the frames
FramesAllocated == FRAMES_MAX * SizeOfValue

\* C37: the frame array holds FRAMES_MAX CallFrame records: every frame the
\* VM has written at an index below FRAMES_MAX ends inside the allocation
C37_FramesInsideAllocation ==
    \A index \in 0..(FRAMES_MAX - 1) :
       index < vm.frame_count => (index + 1) * SizeOfCallFrame <= FramesAllocated

(***************************************************************************)
(* Parser::compile on texts with lexical errors, unterminated strings and  *)
(* unbalanced braces: the turns of its loop and the scanner's cursor.      *)
(***************************************************************************)
MaxParseTokens == 3

ParseWords ==
    << <<"{">>, <<"}">>, <<"\"">>, <<"^">>, <<"1">>, <<";">>,
       <<"p", "r", "i", "n", "t">>, <<"v", "a", "r">>, <<"a">>,
       <<"f", "u", "n">>, <<"(">>, <<")">> >>

RECURSIVE ParseText(_)
ParseText(words) ==
    IF words = <<>> THEN <<>>
    ELSE ParseWords[Head(words)] \o <<" ">> \o ParseText(Tail(words))

\* the offset the scanner has consumed the text to: the start of the token
\* it has peeked, its cursor when it has peeked none
Consumed(sc) == IF sc.peeked # NoPeek THEN sc.peeked.loc[1] ELSE sc.at

\* before is Consumed at the start of the latest turn of the loop of compile
ParseInit ==
    /\ \E words \in Sources(DOMAIN ParseWords, MaxParseTokens) :
          parser = [p |-> Parser_new(ParseText(words), Gc_new), status |-> "compiling",
                    before |-> -1, turns |-> 0]
    /\ ht = Idle
    /\ scan = Idle
    /\ vm = Idle

\* one turn of `while parser.scanner.peek().is_some() { parser.declaration() }`
ParseDeclaration ==
    /\ parser.status = "compiling"
    /\ Scanner_peek(parser.p.sc).item # NoItem
    /\ LET d == Then(peek(parser.p), LAMBDA q : declaration(q)) IN
       parser' = [p |-> d, status |-> IF d.res = "panic" THEN "panicked" ELSE "compiling",
                  before |-> Consumed(parser.p.sc), turns |-> parser.turns + 1]
    /\ UNCHANGED notParser

\* the end of compile
ParseEnd ==
    /\ parser.status = "compiling"
    /\ Scanner_peek(parser.p.sc).item = NoItem
    /\ parser' = IF parser.p.errors = <<>>
                 THEN [parser EXCEPT !.p = end_compiler(@, eof_location(@.sc.src)),
                                     !.status = "Ok"]
                 ELSE [parser EXCEPT !.status = "Err"]
    /\ UNCHANGED notParser

ParseNext == ParseDeclaration \/ ParseEnd

SpecParse == ParseInit /\ [][ParseNext]_vars

\* C38: Parser::compile terminates: the scanner's next moves its cursor
\* forward by at least one character or reports the end of the input, and
\* every turn of the loop of compile, a call of declaration with whatever
\* synchronize and block do in it, consumes text, so the loop has at most as
\* many turns as the text has characters and no turn panics
C38_CompileMovesForward ==
    LET sc == [parser.p.sc EXCEPT !.peeked = NoPeek]
        r == Scanner_next(sc)
    IN /\ r.item = NoItem \/ r.sc.at > sc.at
       /\ r.sc.at <= Len(sc.src)
       /\ parser.status # "panicked"
       /\ parser.turns > 0 => Consumed(parser.p.sc) > parser.before
       /\ Consumed(parser.p.sc) <= Len(sc.src)
       /\ parser.turns <= Len(sc.src)

\* compile has returned its errors for `{ ^ "`: a brace never closed, a
\* character no token starts with and a string never terminated
C38_Witness ==
    /\ parser.status = "Err"
    /\ parser.p.sc.src = ParseText(<<1, 4, 3>>)
    /\ Len(parser.p.errors) > 0

(***************************************************************************)
(* Compiler::add_upvalue on the upvalue list of one function (compiler.rs, *)
(* tests::add_upvalue_deduplicates).                                       *)
(***************************************************************************)
MaxUpvalueIndex == 1

\* the state after a call: the compiler, the list before the call, the
\* descriptor added and the index returned
UpvalueState(cs, before, pair, index) ==
    [status |-> "upvalues", cs |-> cs, before |-> before, pair |-> pair, index |-> index]

UpvalueInit ==
    /\ LET cs == <<Compiler_new("Function", <<"g">>)>> IN
       parser = UpvalueState(cs, <<>>, <<>>, -1)
    /\ ht = Idle
    /\ scan = Idle
    /\ vm = Idle

UpvalueAdd ==
    /\ \E index \in 0..MaxUpvalueIndex, is_local \in BOOLEAN :
          LET r == add_upvalue(parser.cs, 1, index, is_local) IN
          parser' = UpvalueState(r.cs, parser.cs[1].upvalues,
                                 [index |-> index, is_local |-> is_local], r.index)
    /\ UNCHANGED notParser

UpvalueNext == UpvalueAdd

SpecUpvalue == UpvalueInit /\ [][UpvalueNext]_vars

\* C39: add_upvalue of a descriptor the list holds returns the index of that
\* entry and appends nothing; of one it does not hold it appends it and
\* returns its index; so the list holds each descriptor at most once and the
\* descriptors before the call keep their indices
C39_AddUpvalueIdempotent ==
    LET upvalues == parser.cs[1].upvalues
        before == parser.before
        held == {i \in 1..Len(before) : before[i] = parser.pair}
    IN /\ \A i, j \in 1..Len(upvalues) : upvalues[i] = upvalues[j] => i = j
       /\ parser.index >= 0 =>
             /\ SubSeq(upvalues, 1, Len(before)) = before
             /\ upvalues[parser.index + 1] = parser.pair
             /\ held # {} => upvalues = before /\ parser.index + 1 \in held
             /\ held = {} => upvalues = Append(before, parser.pair)
                             /\ parser.index = Len(before)

\* a descriptor added again behind two others: its index 0 is returned and
\* the list of three is the list before the call
C39_Witness ==
    /\ Len(parser.before) = 3
    /\ parser.before[1] = parser.pair
    /\ parser.index = 0
    /\ parser.cs[1].upvalues = parser.before

(***************************************************************************)
(* Compiler::end_scope on the compilers a compile goes through: scopes     *)
(* begun and ended, variables declared and defined, locals captured by an  *)
(* inner function.  A declaration whose initializer failed leaves its      *)
(* local declared and never defined while the compile goes on.             *)
(* declared[i] is the scope depth locals[i] was declared at, before the    *)
(* compiler in front of the latest call.                                   *)
(***************************************************************************)
ScopeState(p, call, declared, before) ==
    [p |-> p, status |-> IF p.res = "ok" THEN "declaring" ELSE "failed",
     call |-> call, declared |-> declared, before |-> before]

\* the compiler and declared in front of a call
InFront == [compiler |-> current(parser.p), declared |-> parser.declared]

ScopeInit ==
    /\ LET p == Parser_new(<<>>, Gc_new) IN
       parser = ScopeState(p, "new", <<0>>, [compiler |-> current(p), declared |-> <<0>>])
    /\ ht = Idle
    /\ scan = Idle
    /\ vm = Idle

ScopeBegin ==
    /\ parser.status = "declaring"
    /\ current(parser.p).scope_depth < MaxScopeDepth
    /\ parser' = ScopeState(begin_scope(parser.p), "begin_scope", parser.declared,
                            InFront)
    /\ UNCHANGED notParser

ScopeDeclare ==
    /\ parser.status = "declaring"
    /\ current(parser.p).scope_depth > 0
    /\ Len(current(parser.p).locals) <= MaxLocals
    /\ \E name \in LocalNames :
          LET d == declare_variable(parser.p, name, <<0, 0>>) IN
          parser' = ScopeState(d, "declare_variable",
                               IF d.res = "ok"
                               THEN Append(parser.declared, current(parser.p).scope_depth)
                               ELSE parser.declared,
                               InFront)
    /\ UNCHANGED notParser

ScopeDefine ==
    /\ parser.status = "declaring"
    /\ parser.call = "declare_variable"
    /\ parser' = ScopeState(define_variable(parser.p, -1, <<0, 0>>), "define_variable",
                            parser.declared, InFront)
    /\ UNCHANGED notParser

\* an inner function reads the local name: resolve_upvalue on its compiler
ScopeCapture ==
    /\ parser.status = "declaring"
    /\ \E name \in LocalNames :
          LET inner == Append(parser.p.cs, Compiler_new("Function", <<"g">>))
              r == resolve_upvalue(inner, Len(inner), name)
          IN /\ r.index >= 0
             /\ parser' = ScopeState([parser.p EXCEPT !.cs = SubSeq(r.cs, 1, Len(parser.p.cs))],
                                     "resolve_upvalue", parser.declared, InFront)
    /\ UNCHANGED notParser

ScopeEnd ==
    /\ parser.status = "declaring"
    /\ current(parser.p).scope_depth > 0
    /\ Len(current(parser.p).chunk.code) < MaxLocalsCode
    /\ LET ended == end_scope(current(parser.p), <<0, 0>>) IN
       parser' = ScopeState(on_current(parser.p, ended), "end_scope",
                            SubSeq(parser.declared, 1, Len(ended.locals)),
                            InFront)
    /\ UNCHANGED notParser

ScopeNext == ScopeBegin \/ ScopeDeclare \/ ScopeDefine \/ ScopeCapture \/ ScopeEnd

SpecScope == ScopeInit /\ [][ScopeNext]_vars

\* the locals of b (by index) declared in the scope that ends
DeclaredInScope(b, declared) ==
    {i \in 1..Len(b.locals) : declared[i] > b.scope_depth - 1}

\* the locals of b (by index) whose depth is greater than the depth of the
\* scope returned to or that are not initialized
AboveOrUninitialized(b) ==
    {i \in 1..Len(b.locals) :
        b.locals[i].depth = -1 \/ b.locals[i].depth > b.scope_depth - 1}

\* the instructions c has more than b
WrittenByEndScope(b, c) == SubSeq(c.chunk.code, Len(b.chunk.code) + 1, Len(c.chunk.code))

\* c is b with its scope ended: the locals of set are gone, the others are
\* kept, and one instruction is written per local gone, the latest first
EndsScope(b, c, set) ==
    LET n == Len(b.locals)
        written == WrittenByEndScope(b, c)
    IN /\ c.scope_depth = b.scope_depth - 1
       /\ Len(c.locals) <= n
       /\ c.locals = SubSeq(b.locals, 1, Len(c.locals))
       /\ set = (Len(c.locals) + 1)..n
       /\ SubSeq(c.chunk.code, 1, Len(b.chunk.code)) = b.chunk.code
       /\ Len(written) = n - Len(c.locals)
       /\ \A k \in 1..Len(written) :
             written[k] = Op(IF b.locals[n + 1 - k].is_captured THEN "CloseUpvalue"
                             ELSE "Pop", 0, 0)

UninitializedInScope(b, declared) ==
    \A i \in 1..Len(b.locals) : b.locals[i].depth = -1 => declared[i] > b.scope_depth - 1

CallArityProgram ==
    [src |-> <<"f", "u", "n", " ", "g", "(", "a", ")", "{", "}", "g", "(", ")", ";">>]

\* fun r(n){if(n<62)r(n+1);else r();}r(0);
DeepArityProgram ==
    [src |-> <<"f", "u", "n", " ", "r", "(", "n", ")", "{", "i", "f", "(", "n", "<",
               "6", "2", ")", "r", "(", "n", "+", "1", ")", ";", "e", "l", "s", "e",
               " ", "r", "(", ")", ";", "}", "r", "(", "0", ")", ";">>]

\* the class A{m(a){}} of the programs below
ArityClass(rest_constants, rest_code) ==
    [assembly |->
        [name |-> <<>>, arity |-> 0, upvalues |-> <<>>,
         constants |-> << [str |-> <<"A">>], [str |-> <<"m">>],
                          [fun |-> [name |-> <<"m">>, arity |-> 1, upvalues |-> <<>>,
                                    constants |-> <<>>,
                                    code |-> << Op("Nil", 0, 0), Op("Return", 0, 0) >>]] >>
                      \o rest_constants,
         code |-> << Op("Class", 0, 0), Op("DefineGlobal", 0, 0), Op("GetGlobal", 0, 0),
                     Op("Closure", 2, 0), Op("Method", 1, 0), Op("Pop", 0, 0) >>
                  \o rest_code]]

\* class A{m(a){}}var b=A().m;b();
BoundMethodArityProgram ==
    ArityClass(<< [str |-> <<"b">>] >>,
               << Op("GetGlobal", 0, 0), Op("Call", 0, 0), Op("GetProperty", 1, 0),
                  Op("DefineGlobal", 3, 0), Op("GetGlobal", 3, 0), Op("Call", 0, 0),
                  Op("Pop", 0, 0), Op("Nil", 0, 0), Op("Return", 0, 0) >>)

\* class A{m(a){}}A().m();
InvokeArityProgram ==
    ArityClass(<<>>,
               << Op("GetGlobal", 0, 0), Op("Call", 0, 0), Op("Invoke", 1, 0),
                  Op("Pop", 0, 0), Op("Nil", 0, 0), Op("Return", 0, 0) >>)

\* class B{init(a){}}B();
InitArityProgram ==
    [assembly |->
        [name |-> <<>>, arity |-> 0, upvalues |-> <<>>,
         constants |-> << [str |-> <<"B">>], [str |-> <<"i", "n", "i", "t">>],
                          [fun |-> [name |-> <<"i", "n", "i", "t">>, arity |-> 1,
                                    upvalues |-> <<>>, constants |-> <<>>,
                                    code |-> << Op("GetLocal", 0, 0), Op("Return", 0, 0) >>]] >>,
         code |-> << Op("Class", 0, 0), Op("DefineGlobal", 0, 0), Op("GetGlobal", 0, 0),
                     Op("Closure", 2, 0), Op("Method", 1, 0), Op("Pop", 0, 0),
                     Op("GetGlobal", 0, 0), Op("Call", 0, 0), Op("Pop", 0, 0),
                     Op("Nil", 0, 0), Op("Return", 0, 0) >>]]

ArityPrograms ==
    {CallArityProgram, DeepArityProgram, BoundMethodArityProgram, InvokeArityProgram,
     InitArityProgram}

ArityInit ==
    /\ \E stress_gc \in BOOLEAN : vm = Fresh(stress_gc, TRUE)
    /\ ht = Idle
    /\ scan = Idle
    /\ parser = Idle

ArityInterpret ==
    /\ vm.status = "ready"
    /\ vm.calls = 0
    /\ \E src \in ArityPrograms, now \in ClockReadings, outcome \in UbOutcomes :
          vm' = After(interpret([vm EXCEPT !.res = "ok", !.ub = FALSE, !.src = src],
                                src, now), outcome)
    /\ UNCHANGED notVm

ArityNext == ArityInterpret \/ Step

SpecArity == ArityInit /\ [][ArityNext]_vars

\* the VM is about to execute Call or Invoke
AtCall(v) ==
    /\ v.status = "running"
    /\ current_frame(v).ip < Len(chunk(v).code)
    /\ NextOp(v).op \in {"Call", "Invoke"}

\* its argument count
ArgCount(v) == IF NextOp(v).op = "Call" THEN NextOp(v).a ELSE NextOp(v).b

\* the closure a call of this value runs: the closure itself, the method of a
\* bound method, the initializer of a class; 0 for none
ClosureOf(v, callee) ==
    IF callee.t # "obj" THEN 0
    ELSE LET obj == node(v, callee.n) IN
         CASE obj.kind = "Closure" -> callee.n
           [] obj.kind = "BoundMethod" -> obj.method
           [] obj.kind = "Class" ->
                 LET initializer == HashTable_get(v.gc.objs, obj.methods, v.init_string)
                 IN  IF initializer = NoKey THEN 0 ELSE initializer.n
           [] OTHER -> 0

\* the method of the receiver's class an Invoke calls; 0 when the receiver is
\* no instance, has a field of that name or its class has no such method
MethodInvoked(v) ==
    LET receiver == Cell(v, v.stack_top - ArgCount(v) - 1)
        name == chunk(v).constants[NextOp(v).a + 1]
    IN IF ~is_kind(v, receiver, "Instance") THEN 0
       ELSE IF HashTable_get(v.gc.objs, node(v, receiver.n).fields, name) # NoKey THEN 0
       ELSE LET method == HashTable_get(v.gc.objs,
                                        node(v, node(v, receiver.n).class).methods, name)
            IN  IF method = NoKey THEN 0 ELSE method.n

\* the value an instruction hands to call_value: the callee of a Call, the
\* field an Invoke finds on its receiver; NoKey for none
ValueCalled(v) ==
    LET receiver == Cell(v, v.stack_top - ArgCount(v) - 1) IN
    IF NextOp(v).op = "Call" THEN receiver
    ELSE IF ~is_kind(v, receiver, "Instance") THEN NoKey
    ELSE HashTable_get(v.gc.objs, node(v, receiver.n).fields,
                       chunk(v).constants[NextOp(v).a + 1])

\* the closure the instruction calls, 0 for none
ClosureCalled(v) ==
    IF ValueCalled(v) # NoKey THEN ClosureOf(v, ValueCalled(v)) ELSE MethodInvoked(v)

ArityOf(v, closure) == node(v, node(v, closure).function).arity

\* the call has failed for its argument count and pushed no frame (a message
\* is a string or a tuple of its parts: the two are compared as texts)
FailedForArity(v, w) ==
    /\ w.status = "ready"
    /\ w.result = "RuntimeError"
    /\ ToString(w.msg.msg)
          = ToString(<<"Expected", ArityOf(v, ClosureCalled(v)), "arguments but got",
                       ArgCount(v)>>)
    /\ w.frame_count = v.frame_count

\* the instruction calls a closure with a number of arguments that is not
\* its arity
ArityMismatch(v) ==
    /\ AtCall(v)
    /\ ClosureCalled(v) # 0
    /\ ArityOf(v, ClosureCalled(v)) # ArgCount(v)

\* C11: a call of a closure with an argument count that is not its arity, by
\* Call, through a bound method, through Invoke or as a class initializer,
\* fails with "Expected <arity> arguments but got <argc>" and pushes no frame
C11_ArityMismatchFails ==
    [][ArityMismatch(vm) => FailedForArity(vm, vm')]_vars

\* the call goes through call_value with FRAMES_MAX frames active
OverflowFirst(v) == ValueCalled(v) # NoKey /\ v.frame_count = FRAMES_MAX

\* C11 but for a call through call_value with FRAMES_MAX frames active,
\* which fails with "Stack overflow" and pushes no frame either
C11_ArityMismatchFailsBelowFramesMax ==
    [][ArityMismatch(vm) =>
          IF OverflowFirst(vm)
          THEN /\ vm'.status = "ready"
               /\ vm'.result = "RuntimeError"
               /\ vm'.msg.msg = "Stack overflow"
               /\ vm'.frame_count = vm.frame_count
          ELSE FailedForArity(vm, vm')]_vars

\* the initializer of B was called without its argument: the call has
\* failed with the instance in the callee's slot and the script's frame only
C11_Witness ==
    /\ vm.src = InitArityProgram
    /\ vm.status = "ready"
    /\ vm.result = "RuntimeError"
    /\ vm.msg.msg = <<"Expected", 1, "arguments but got", 0>>
    /\ vm.frame_count = 1

(***************************************************************************)
(* Assignment to a global that was never defined (Op::SetGlobal).          *)
(***************************************************************************)
\* x=1;
SetUndefinedProgram ==
    [src |-> <<"x", "=", "1", ";">>]

\* the table of the globals grows in the insert of the failing SetGlobal:
\*   var a=1;var b=2;var c=3;x=1;
SetUndefinedGrowingProgram ==
    [src |-> <<"v", "a", "r", " ", "a", "=", "1", ";", "v", "a", "r", " ", "b", "=",
               "2", ";", "v", "a", "r", " ", "c", "=", "3", ";", "x", "=", "1", ";">>]

\* var x=1;x=2;
SetDefinedProgram ==
    [src |-> <<"v", "a", "r", " ", "x", "=", "1", ";", "x", "=", "2", ";">>]

GlobalsPrograms ==
    {SetUndefinedProgram, SetUndefinedGrowingProgram, SetDefinedProgram, [src |-> <<"x", ";">>]}

GlobalsInit ==
    /\ vm = Fresh(FALSE, TRUE)
    /\ ht = Idle
    /\ scan = Idle
    /\ parser = Idle

GlobalsInterpret ==
    /\ vm.status = "ready"
    /\ vm.calls < MaxInterprets
    /\ \E src \in GlobalsPrograms, now \in ClockReadings, outcome \in UbOutcomes :
          vm' = After(interpret([vm EXCEPT !.res = "ok", !.ub = FALSE, !.src = src],
                                src, now), outcome)
    /\ UNCHANGED notVm

GlobalsNext == GlobalsInterpret \/ Step

SpecGlobals == GlobalsInit /\ [][GlobalsNext]_vars

\* the name of the global the instruction at hand names
GlobalNamed(v) == chunk(v).constants[NextOp(v).a + 1]

\* the VM is about to execute op on a global that is not defined
AtUndefinedGlobal(v, op) ==
    /\ v.status = "running"
    /\ current_frame(v).ip < Len(chunk(v).code)
    /\ NextOp(v).op = op
    /\ HashTable_get(v.gc.objs, v.globals, GlobalNamed(v)) = NoKey

\* the strings of the heap, each a possible name of a global
Names(v) == {r \in 1..Len(v.gc.objs) : v.gc.objs[r].kind = "String" /\ ~v.gc.objs[r].freed}

\* the run has ended with "Undefined variable <name>"
UndefinedVariable(v, w) ==
    /\ w.status = "ready"
    /\ w.result = "RuntimeError"
    /\ ToString(w.msg.msg) = ToString(<<"Undefined variable", GlobalNamed(v)>>)

\* C12: SetGlobal of a name that is not defined fails with "Undefined
\* variable <name>" and every name, this one too, has in the globals what it
\* had: the name is still undefined, so that a GetGlobal or SetGlobal of it
\* fails again, and every other global keeps its value
C12_SetUndefinedGlobalFails ==
    [][/\ AtUndefinedGlobal(vm, "SetGlobal") =>
             /\ UndefinedVariable(vm, vm')
             /\ \A r \in Names(vm) :
                   HashTable_get(vm'.gc.objs, vm'.globals, Obj(r))
                      = HashTable_get(vm.gc.objs, vm.globals, Obj(r))
       /\ AtUndefinedGlobal(vm, "GetGlobal") =>
             UndefinedVariable(vm, vm') /\ vm'.globals = vm.globals]_vars

\* x=1; has failed behind three definitions: the table grew to 16 in the
\* insert, holds a tombstone for x and the three globals with their values
C12_Witness ==
    /\ vm.src = SetUndefinedGrowingProgram
    /\ vm.status = "ready"
    /\ vm.result = "RuntimeError"
    /\ vm.globals.capacity = 16
    /\ vm.globals.count = 7
    /\ Cardinality(Tombstones(vm.globals)) = 1
    /\ Cardinality(LiveSlots(vm.globals)) = 6

(***************************************************************************)
(* The source span a runtime error carries (CallFrame::current_location).  *)
(***************************************************************************)
\* the step at hand executes an instruction and ends the run with a runtime error
FailsAtInstruction(v, w) ==
    /\ v.status = "running"
    /\ current_frame(v).ip < Len(chunk(v).code)
    /\ w.status = "ready"
    /\ w.result = "RuntimeError"

\* the span recorded for the instruction the step at hand executes, and the
\* span recorded for the one behind it
FailingSpan(v) == chunk(v).locations[current_frame(v).ip + 1]

FollowingSpan(v) == chunk(v).locations[current_frame(v).ip + 2]

\* C13: a runtime error raised while an instruction executes carries the span
\* recorded for that instruction
C13_ErrorCarriesSpanOfFailingInstruction ==
    [][FailsAtInstruction(vm, vm') => vm'.msg.location = FailingSpan(vm)]_vars

\* what the code does: ip is advanced before the instruction executes, and
\* the error carries the span recorded for the instruction behind the failing one
C13_ErrorCarriesSpanOfFollowingInstruction ==
    [][FailsAtInstruction(vm, vm') =>
          /\ current_frame(vm).ip + 1 < Len(chunk(vm).code)
          /\ vm'.msg.location = FollowingSpan(vm)]_vars

(***************************************************************************)
(* What a collection leaves of the heap (VM::collect_garbage).             *)
(***************************************************************************)
\* the nodes of the object list
Linked(gc) == {gc.head[i] : i \in 1..Len(gc.head)}

\* the objects of the heap of v that are reachable from the roots of v
Reachable(v) == ReachableFrom(v.gc.objs, Roots(v))

\* the VM is in a state between two instructions or between two calls
Collectable(v) == v.calls > 0 /\ v.status \in {"running", "ready"}

\* C14: a collection in any state of the VM frees and unlinks every object
\* that is not reachable from the roots, and the object list it leaves
\* holds exactly the objects that are reachable from the roots
C14_CollectionLeavesTheReachable ==
    Collectable(vm) =>
        LET swept == collect_garbage(vm).gc IN
        /\ \A r \in 1..Len(vm.gc.objs) :
              r \notin Reachable(vm) => swept.objs[r].freed /\ r \notin Linked(swept)
        /\ Linked(swept) = Reachable(vm)

\* what the code does: every object that is not reachable is freed and
\* unlinked, and the list holds reachable objects only
C14_CollectionFreesTheUnreachable ==
    Collectable(vm) =>
        LET swept == collect_garbage(vm).gc IN
        /\ \A r \in 1..Len(vm.gc.objs) :
              r \notin Reachable(vm) => swept.objs[r].freed /\ r \notin Linked(swept)
        /\ Linked(swept) \subseteq Reachable(vm)

(***************************************************************************)
(* The mark bits between collections (ObjStruct::new, Markable for ObjRef, *)
(* Gc::sweep).                                                             *)
(***************************************************************************)
\* the objects of the heap that have not been freed
OnHeap(gc) == {r \in 1..Len(gc.objs) : ~gc.objs[r].freed}

\* C15: in every state between two instructions or two calls, and so
\* between two collections, no object of the heap is marked and no object
\* is grey: the next collection starts marking from an all-unmarked heap
C15_UnmarkedBetweenCollections ==
    /\ \A r \in OnHeap(vm.gc) : ~vm.gc.objs[r].marked
    /\ vm.gc.grey = <<>>

\* a collection has freed an object and has left survivors, all unmarked
C15_Witness ==
    /\ vm.status = "running"
    /\ \E r \in 1..Len(vm.gc.objs) : vm.gc.objs[r].freed
    /\ Cardinality(OnHeap(vm.gc)) > 8
    /\ Linked(vm.gc) = OnHeap(vm.gc)
    /\ \A r \in OnHeap(vm.gc) : ~vm.gc.objs[r].marked

(***************************************************************************)
(* Calls of a class (Obj::Class arm of VM::call_value).                    *)
(***************************************************************************)
\* class A{}A();
ClassCallProgram ==
    [src |-> <<"c", "l", "a", "s", "s", " ", "A", "{", "}", "A", "(", ")", ";">>]

\* class A{}A(1);
ClassCallArgumentProgram ==
    [src |-> <<"c", "l", "a", "s", "s", " ", "A", "{", "}", "A", "(", "1", ")", ";">>]

\* class A{}fun r(n){if(n<62)r(n+1);else A();}r(0);
DeepClassCallProgram ==
    [src |-> <<"c", "l", "a", "s", "s", " ", "A", "{", "}",
               "f", "u", "n", " ", "r", "(", "n", ")", "{", "i", "f", "(", "n", "<",
               "6", "2", ")", "r", "(", "n", "+", "1", ")", ";", "e", "l", "s", "e",
               " ", "A", "(", ")", ";", "}", "r", "(", "0", ")", ";">>]

\* class B{init(a){}}B(7);
InitProgram ==
    [assembly |->
        [name |-> <<>>, arity |-> 0, upvalues |-> <<>>,
         constants |-> << [str |-> <<"B">>], [str |-> <<"i", "n", "i", "t">>],
                          [fun |-> [name |-> <<"i", "n", "i", "t">>, arity |-> 1,
                                    upvalues |-> <<>>, constants |-> <<>>,
                                    code |-> << Op("GetLocal", 0, 0), Op("Return", 0, 0) >>]],
                          Num(7) >>,
         code |-> << Op("Class", 0, 0), Op("DefineGlobal", 0, 0), Op("GetGlobal", 0, 0),
                     Op("Closure", 2, 0), Op("Method", 1, 0), Op("Pop", 0, 0),
                     Op("GetGlobal", 0, 0), Op("Constant", 3, 0), Op("Call", 1, 0),
                     Op("Pop", 0, 0), Op("Nil", 0, 0), Op("Return", 0, 0) >>]]

ClassPrograms ==
    {ClassCallProgram, ClassCallArgumentProgram, DeepClassCallProgram, InitProgram,
     InitArityProgram}

ClassInit ==
    /\ \E stress_gc \in BOOLEAN : vm = Fresh(stress_gc, TRUE)
    /\ ht = Idle
    /\ scan = Idle
    /\ parser = Idle

ClassInterpret ==
    /\ vm.status = "ready"
    /\ vm.calls = 0
    /\ \E src \in ClassPrograms, now \in ClockReadings, outcome \in UbOutcomes :
          vm' = After(interpret([vm EXCEPT !.res = "ok", !.ub = FALSE, !.src = src],
                                src, now), outcome)
    /\ UNCHANGED notVm

ClassNext == ClassInterpret \/ Step

SpecClass == ClassInit /\ [][ClassNext]_vars

\* the slot of the callee of the Call at hand
CalleeSlot(v) == v.stack_top - NextOp(v).a - 1

\* the VM is about to execute Call on a class
AtClassCall(v) ==
    /\ v.status = "running"
    /\ current_frame(v).ip < Len(chunk(v).code)
    /\ NextOp(v).op = "Call"
    /\ is_kind(v, Cell(v, CalleeSlot(v)), "Class")

\* the step has created an instance of the class called, without fields, and
\* has stored it in the slot of the callee
InstanceCreated(v, w) ==
    LET new == Len(v.gc.objs) + 1 IN
    /\ Len(w.gc.objs) = new
    /\ w.gc.objs[new].kind = "Instance"
    /\ w.gc.objs[new].class = Cell(v, CalleeSlot(v)).n
    /\ w.gc.objs[new].fields = HashTable_new
    /\ ~w.gc.objs[new].freed
    /\ Cell(w, CalleeSlot(v)) = Obj(new)

\* the step has pushed a frame for the closure with the slot of the callee
\* as its slot 0 and the arguments above it
ClosureEntered(v, w, closure) ==
    /\ w.status = "running"
    /\ w.frame_count = v.frame_count + 1
    /\ current_frame(w) = [closure |-> closure, ip |-> 0, slots |-> CalleeSlot(v)]
    /\ w.stack_top = v.stack_top
    /\ \A i \in 1..NextOp(v).a : Cell(w, CalleeSlot(v) + i) = Cell(v, CalleeSlot(v) + i)

\* the step has gone on behind the Call in the same frame
CallDone(v, w) ==
    /\ w.status = "running"
    /\ w.frame_count = v.frame_count
    /\ current_frame(w).ip = current_frame(v).ip + 1
    /\ w.stack_top = v.stack_top

\* the run has ended with the runtime error msg
FailedWith(w, msg) ==
    /\ w.status = "ready"
    /\ w.result = "RuntimeError"
    /\ ToString(w.msg.msg) = ToString(msg)

\* what a Call on a class does when call_value lets it through
ClassCalled(v, w) ==
    LET argc == NextOp(v).a
        initializer == ClosureOf(v, Cell(v, CalleeSlot(v)))
    IN /\ InstanceCreated(v, w)
       /\ CASE initializer # 0 /\ ArityOf(v, initializer) = argc ->
                  ClosureEntered(v, w, initializer)
            [] initializer # 0 ->
                  FailedWith(w, <<"Expected", ArityOf(v, initializer), "arguments but got", argc>>)
            [] argc = 0 -> CallDone(v, w)
            [] OTHER -> FailedWith(w, <<"Expected 0 arguments but got", argc>>)

\* C16: Call on a class creates an instance of the class in the callee's
\* slot; with an init method the initializer is called with the arguments of
\* the Call and the instance in slot 0; without one the call succeeds when it
\* has no argument and fails with a runtime error when it has one
C16_ClassCallCreatesInstance ==
    [][AtClassCall(vm) => ClassCalled(vm, vm')]_vars

\* C16 for a VM with fewer than FRAMES_MAX frames; with FRAMES_MAX frames
\* the Call fails with "Stack overflow" and creates no instance
C16_ClassCallCreatesInstanceBelowFramesMax ==
    [][AtClassCall(vm) =>
          IF vm.frame_count = FRAMES_MAX
          THEN /\ FailedWith(vm', "Stack overflow")
               /\ vm'.gc.objs = vm.gc.objs
          ELSE ClassCalled(vm, vm')]_vars

\* the initializer of B has been entered with the instance in slot 0 and 7 in
\* slot 1
C16_Witness ==
    /\ vm.src = InitProgram
    /\ vm.status = "running"
    /\ vm.frame_count = 2
    /\ current_frame(vm).ip = 0
    /\ is_kind(vm, Cell(vm, current_frame(vm).slots), "Instance")
    /\ Cell(vm, current_frame(vm).slots + 1) = Num(7)

(***************************************************************************)
(* Property reads (VM::get_property, VM::bind_method).                     *)
(***************************************************************************)
\* class A{}var a=A();a.x=1;a.x;
GetFieldProgram ==
    [src |-> <<"c", "l", "a", "s", "s", " ", "A", "{", "}", "v", "a", "r", " ", "a", "=",
               "A", "(", ")", ";", "a", ".", "x", "=", "1", ";", "a", ".", "x", ";">>]

\* class A{}var a=A();a.x;
GetUndefinedProgram ==
    [src |-> <<"c", "l", "a", "s", "s", " ", "A", "{", "}", "v", "a", "r", " ", "a", "=",
               "A", "(", ")", ";", "a", ".", "x", ";">>]

\* class A{}A.x;
GetOnClassProgram ==
    [src |-> <<"c", "l", "a", "s", "s", " ", "A", "{", "}", "A", ".", "x", ";">>]

\* var a=1;a.x;
GetOnNumberProgram ==
    [src |-> <<"v", "a", "r", " ", "a", "=", "1", ";", "a", ".", "x", ";">>]

\* class A{m(a){}}A().m;
GetMethodProgram ==
    ArityClass(<<>>,
               << Op("GetGlobal", 0, 0), Op("Call", 0, 0), Op("GetProperty", 1, 0),
                  Op("Pop", 0, 0), Op("Nil", 0, 0), Op("Return", 0, 0) >>)

\* class A{m(a){}}var b=A();b.m=1;b.m;
GetShadowedMethodProgram ==
    ArityClass(<< [str |-> <<"b">>], Num(1) >>,
               << Op("GetGlobal", 0, 0), Op("Call", 0, 0), Op("DefineGlobal", 3, 0),
                  Op("GetGlobal", 3, 0), Op("Constant", 4, 0), Op("SetProperty", 1, 0),
                  Op("Pop", 0, 0), Op("GetGlobal", 3, 0), Op("GetProperty", 1, 0),
                  Op("Pop", 0, 0), Op("Nil", 0, 0), Op("Return", 0, 0) >>)

PropertyPrograms ==
    {GetFieldProgram, GetUndefinedProgram, GetOnClassProgram, GetOnNumberProgram,
     GetMethodProgram, GetShadowedMethodProgram}

PropertyInit ==
    /\ \E stress_gc \in BOOLEAN : vm = Fresh(stress_gc, TRUE)
    /\ ht = Idle
    /\ scan = Idle
    /\ parser = Idle

PropertyInterpret ==
    /\ vm.status = "ready"
    /\ vm.calls < MaxInterprets
    /\ \E src \in PropertyPrograms, now \in ClockReadings, outcome \in UbOutcomes :
          vm' = After(interpret([vm EXCEPT !.res = "ok", !.ub = FALSE, !.src = src],
                                src, now), outcome)
    /\ UNCHANGED notVm

PropertyNext == PropertyInterpret \/ Step

SpecProperty == PropertyInit /\ [][PropertyNext]_vars

\* the VM is about to execute GetProperty
AtGetProperty(v) ==
    /\ v.status = "running"
    /\ current_frame(v).ip < Len(chunk(v).code)
    /\ NextOp(v).op = "GetProperty"

\* the receiver of the property access and the name of the property
Receiver(v) == Cell(v, v.stack_top - 1)

PropertyName(v) == chunk(v).constants[NextOp(v).a + 1]

\* the field of that name of the receiver and the method of that name of the
\* receiver's class, NoKey for none
FieldRead(v) == HashTable_get(v.gc.objs, node(v, Receiver(v).n).fields, PropertyName(v))

MethodRead(v) ==
    HashTable_get(v.gc.objs, node(v, node(v, Receiver(v).n).class).methods, PropertyName(v))

\* the step has put value where the receiver was and has gone on
ReceiverReplaced(v, w, value) ==
    /\ w.status = "running"
    /\ w.frame_count = v.frame_count
    /\ current_frame(w).ip = current_frame(v).ip + 1
    /\ w.stack_top = v.stack_top
    /\ Cell(w, w.stack_top - 1) = value

\* the step has made a bound method of the receiver and the method
MethodBound(v, w) ==
    LET new == Len(v.gc.objs) + 1 IN
    /\ Len(w.gc.objs) = new
    /\ w.gc.objs[new].kind = "BoundMethod"
    /\ w.gc.objs[new].receiver = Receiver(v)
    /\ w.gc.objs[new].method = MethodRead(v).n
    /\ ReceiverReplaced(v, w, Obj(new))

\* C17: GetProperty on an instance replaces the receiver with the field of
\* that name when there is one, also when the class has a method of that
\* name; else with a new bound method of the receiver and the class's method
\* of that name when there is one; else, and on every value that is not an
\* instance, it fails with a runtime error
C17_GetProperty ==
    [][AtGetProperty(vm) =>
          CASE ~is_kind(vm, Receiver(vm), "Instance") ->
                  vm'.status = "ready" /\ vm'.result = "RuntimeError"
            [] FieldRead(vm) # NoKey ->
                  /\ ReceiverReplaced(vm, vm', FieldRead(vm))
                  /\ vm'.gc.objs = vm.gc.objs
            [] MethodRead(vm) # NoKey -> MethodBound(vm, vm')
            [] OTHER ->
                  FailedWith(vm', <<"Undefined property", PropertyName(vm), "on class",
                                    node(vm, node(vm, Receiver(vm).n).class).name>>)]_vars

\* b.m has read the field 1 of an instance whose class has a method m
C17_Witness ==
    /\ vm.src = GetShadowedMethodProgram
    /\ vm.status = "running"
    /\ current_frame(vm).ip = 15
    /\ Cell(vm, vm.stack_top - 1) = Num(1)

(***************************************************************************)
(* Inheritance (Op::Inherit, VM::define_method, Class::copy_methods).      *)
(***************************************************************************)
\* class A{m(){}n(){}}class B<A{m(){}}class C<B{}C().n();
InheritProgram ==
    [assembly |->
        [name |-> <<>>, arity |-> 0, upvalues |-> <<>>,
         constants |-> << [str |-> <<"A">>], [str |-> <<"m">>],
                          [fun |-> [name |-> <<"m">>, arity |-> 0, upvalues |-> <<>>,
                                    constants |-> <<>>,
                                    code |-> << Op("Nil", 0, 0), Op("Return", 0, 0) >>]],
                          [str |-> <<"n">>],
                          [fun |-> [name |-> <<"n">>, arity |-> 0, upvalues |-> <<>>,
                                    constants |-> <<>>,
                                    code |-> << Op("Nil", 0, 0), Op("Return", 0, 0) >>]],
                          [str |-> <<"B">>],
                          [fun |-> [name |-> <<"m">>, arity |-> 0, upvalues |-> <<>>,
                                    constants |-> <<>>,
                                    code |-> << Op("True", 0, 0), Op("Return", 0, 0) >>]],
                          [str |-> <<"C">>] >>,
         code |-> << Op("Class", 0, 0), Op("DefineGlobal", 0, 0), Op("GetGlobal", 0, 0),
                     Op("Closure", 2, 0), Op("Method", 1, 0),
                     Op("Closure", 4, 0), Op("Method", 3, 0), Op("Pop", 0, 0),
                     Op("Class", 5, 0), Op("DefineGlobal", 5, 0), Op("GetGlobal", 0, 0),
                     Op("GetGlobal", 5, 0), Op("Inherit", 0, 0), Op("GetGlobal", 5, 0),
                     Op("Closure", 6, 0), Op("Method", 1, 0), Op("Pop", 0, 0),
                     Op("Pop", 0, 0),
                     Op("Class", 7, 0), Op("DefineGlobal", 7, 0), Op("GetGlobal", 5, 0),
                     Op("GetGlobal", 7, 0), Op("Inherit", 0, 0), Op("GetGlobal", 7, 0),
                     Op("Pop", 0, 0), Op("Pop", 0, 0),
                     Op("GetGlobal", 7, 0), Op("Call", 0, 0), Op("Invoke", 3, 0),
                     Op("Pop", 0, 0), Op("Nil", 0, 0), Op("Return", 0, 0) >>]]

\* var x=1;class B<x{}
InheritNumberProgram ==
    [assembly |->
        [name |-> <<>>, arity |-> 0, upvalues |-> <<>>,
         constants |-> << [str |-> <<"x">>], Num(1), [str |-> <<"B">>] >>,
         code |-> << Op("Constant", 1, 0), Op("DefineGlobal", 0, 0),
                     Op("Class", 2, 0), Op("DefineGlobal", 2, 0), Op("GetGlobal", 0, 0),
                     Op("GetGlobal", 2, 0), Op("Inherit", 0, 0), Op("GetGlobal", 2, 0),
                     Op("Pop", 0, 0), Op("Pop", 0, 0), Op("Nil", 0, 0),
                     Op("Return", 0, 0) >>]]

\* class B<clock{}
InheritNativeProgram ==
    [assembly |->
        [name |-> <<>>, arity |-> 0, upvalues |-> <<>>,
         constants |-> << [str |-> <<"c", "l", "o", "c", "k">>], [str |-> <<"B">>] >>,
         code |-> << Op("Class", 1, 0), Op("DefineGlobal", 1, 0), Op("GetGlobal", 0, 0),
                     Op("GetGlobal", 1, 0), Op("Inherit", 0, 0), Op("GetGlobal", 1, 0),
                     Op("Pop", 0, 0), Op("Pop", 0, 0), Op("Nil", 0, 0),
                     Op("Return", 0, 0) >>]]

InheritPrograms == {InheritProgram, InheritNumberProgram, InheritNativeProgram}

InheritInit ==
    /\ \E stress_gc \in BOOLEAN : vm = Fresh(stress_gc, TRUE)
    /\ ht = Idle
    /\ scan = Idle
    /\ parser = Idle

InheritInterpret ==
    /\ vm.status = "ready"
    /\ vm.calls < MaxInterprets
    /\ \E src \in InheritPrograms, now \in ClockReadings, outcome \in UbOutcomes :
          vm' = After(interpret([vm EXCEPT !.res = "ok", !.ub = FALSE, !.src = src],
                                src, now), outcome)
    /\ UNCHANGED notVm

InheritNext == InheritInterpret \/ Step

SpecInherit == InheritInit /\ [][InheritNext]_vars

\* the VM is about to execute op
AtOp(v, op) ==
    /\ v.status = "running"
    /\ current_frame(v).ip < Len(chunk(v).code)
    /\ NextOp(v).op = op

\* the method of the name r the class has, NoKey for none
MethodOf(v, class, r) == HashTable_get(v.gc.objs, node(v, class).methods, Obj(r))

\* the classes of the heap
Classes(v) == {r \in 1..Len(v.gc.objs) : v.gc.objs[r].kind = "Class" /\ ~v.gc.objs[r].freed}

\* Inherit has copied the methods of the class at peek(1) into the class at
\* peek(0), has left their other methods alone and has popped the subclass
Inherited(v, w) ==
    LET superclass == Cell(v, v.stack_top - 2).n
        subclass == Cell(v, v.stack_top - 1).n
    IN /\ w.status = "running"
       /\ w.stack_top = v.stack_top - 1
       /\ current_frame(w).ip = current_frame(v).ip + 1
       /\ \A r \in Names(v) :
             /\ MethodOf(w, subclass, r) =
                   IF MethodOf(v, superclass, r) # NoKey THEN MethodOf(v, superclass, r)
                   ELSE MethodOf(v, subclass, r)
             /\ \A class \in Classes(v) \ {subclass} :
                   MethodOf(w, class, r) = MethodOf(v, class, r)

\* Method has given the class at peek(1) the closure at peek(0) under the
\* name, in the place of any method of that name, and no other method
MethodDefined(v, w) ==
    LET class == Cell(v, v.stack_top - 2).n
        name == chunk(v).constants[NextOp(v).a + 1]
    IN /\ w.status = "running"
       /\ \A r \in Names(v) :
             /\ MethodOf(w, class, r) =
                   IF Obj(r) = name THEN Cell(v, v.stack_top - 1) ELSE MethodOf(v, class, r)
             /\ \A other \in Classes(v) \ {class} :
                   MethodOf(w, other, r) = MethodOf(v, other, r)

\* C18: Inherit with a class at peek(1) copies every method of it into the
\* class at peek(0) and pops that class; a Method executed later replaces the
\* inherited method of its name, and no other instruction changes the
\* methods of a class; Inherit with another value at peek(1) fails with
\* "Superclass must be a class, not <value>"
C18_InheritCopiesMethods ==
    [][/\ AtOp(vm, "Inherit") =>
             IF is_kind(vm, Cell(vm, vm.stack_top - 2), "Class")
             THEN Inherited(vm, vm')
             ELSE FailedWith(vm', <<"Superclass must be a class, not",
                                    Cell(vm, vm.stack_top - 2)>>)
       /\ AtOp(vm, "Method") => MethodDefined(vm, vm')
       /\ (vm.status = "running" /\ ~AtOp(vm, "Inherit") /\ ~AtOp(vm, "Method")) =>
             \A class \in Classes(vm) :
                vm'.gc.objs[class].freed \/ vm'.gc.objs[class].methods = vm.gc.objs[class].methods]_vars

\* n of C is called: C has the n of A through B, and B has the n of A and
\* its own m
C18_Witness ==
    /\ vm.src = InheritProgram
    /\ vm.status = "running"
    /\ vm.frame_count = 2
    /\ \E a, b, c \in Classes(vm), m, n \in Names(vm) :
          /\ node(vm, a).name = Bytes(<<"A">>)
          /\ node(vm, b).name = Bytes(<<"B">>)
          /\ node(vm, c).name = Bytes(<<"C">>)
          /\ MethodOf(vm, a, n) # NoKey /\ MethodOf(vm, a, m) # NoKey
          /\ MethodOf(vm, c, n) = MethodOf(vm, a, n)
          /\ MethodOf(vm, b, n) = MethodOf(vm, a, n)
          /\ MethodOf(vm, b, m) # MethodOf(vm, a, m)
          /\ MethodOf(vm, c, m) = MethodOf(vm, b, m)
          /\ current_frame(vm).closure = MethodOf(vm, a, n).n

(***************************************************************************)
(* Redeclaration and shadowing (Compiler::declare_variable,                *)
(* has_variable_in_current_scope) on the compilers of SpecScope.           *)
(***************************************************************************)
\* the compiler has a local of that name declared in its current scope
DeclaredHere(compiler, declared, name) ==
    \E i \in 1..Len(compiler.locals) :
        compiler.locals[i].name = name /\ declared[i] = compiler.scope_depth

\* declare_variable has rejected the name
Rejected(d) ==
    d.res = "err" /\ d.msg.msg = "Already a variable with this name in this scope"

\* declare_variable has added an uninitialized local of the name behind the
\* locals of p, which it has left as they were
Declared(p, d, name) ==
    /\ d.res = "ok"
    /\ current(d).locals = Append(current(p).locals, Local(name, -1))

\* declare_variable on a compiler inside a scope rejects the name when a
\* local of the current scope has it and declares it otherwise
DeclaresOrRejects(p, declared) ==
    \A name \in LocalNames :
        LET d == declare_variable(p, name, <<0, 0>>) IN
        IF DeclaredHere(current(p), declared, name) THEN Rejected(d)
        ELSE Declared(p, d, name)

UninitializedHere(compiler, declared) ==
    \A i \in 1..Len(compiler.locals) :
        compiler.locals[i].depth = -1 => declared[i] = compiler.scope_depth

MaxDeclarations == 257

DecimalDigits == <<"0", "1", "2", "3", "4", "5", "6", "7", "8", "9">>

RECURSIVE Decimal(_)
Decimal(n) ==
    IF n < 10 THEN <<DecimalDigits[n + 1]>>
    ELSE Append(Decimal(n \div 10), DecimalDigits[(n % 10) + 1])

\* the name of the i-th local declared: v1, v2, ...
ManyName(i) == <<"v">> \o Decimal(i)

ManyInit ==
    /\ parser = LocalsState(begin_scope(Parser_new(<<>>, Gc_new)), "begin_scope", <<>>)
    /\ ht = Idle
    /\ scan = Idle
    /\ vm = Idle

ManyDeclare ==
    /\ parser.status = "declaring"
    /\ parser.call # "named_variable"
    /\ ~Pending(current(parser.p))
    /\ Len(current(parser.p).locals) <= MaxDeclarations
    /\ LET name == ManyName(Len(current(parser.p).locals)) IN
       parser' = LocalsState(declare_variable(parser.p, name, <<0, 0>>),
                             "declare_variable", name)
    /\ UNCHANGED notParser

ManyDefine ==
    /\ parser.status = "declaring"
    /\ Pending(current(parser.p))
    /\ parser' = LocalsState(define_variable(parser.p, -1, <<0, 0>>), "define_variable",
                             <<>>)
    /\ UNCHANGED notParser

\* the first or the latest local is read
ManyRead ==
    /\ parser.status = "declaring"
    /\ parser.call = "define_variable"
    /\ \E name \in {ManyName(1), ManyName(Len(current(parser.p).locals) - 1)} :
          parser' = LocalsState(named_variable(parser.p, name, TRUE, <<0, 0>>),
                                "named_variable", name)
    /\ UNCHANGED notParser

ManyNext == ManyDeclare \/ ManyDefine \/ ManyRead

SpecMany == ManyInit /\ [][ManyNext]_vars

\* the operands of the GetLocal and SetLocal instructions of the chunk
LocalOperands(compiler) ==
    {compiler.chunk.code[i].a :
        i \in {j \in 1..Len(compiler.chunk.code) :
                  compiler.chunk.code[j].op \in {"GetLocal", "SetLocal"}}}

\* C20: with slot 0 reserved the declarations of 255 locals are accepted and
\* the declaration of one more is rejected with "Too many local variables
\* in function.": a function has locals in the slots 0..255 only, every
\* local resolves to a slot in 0..255 and every GetLocal and SetLocal
\* operand written is in 0..255
C20_LocalsLimit ==
    [][/\ parser'.call = "declare_variable" =>
             IF Len(current(parser.p).locals) <= 255
             THEN /\ parser'.status = "declaring"
                  /\ Len(current(parser'.p).locals) = Len(current(parser.p).locals) + 1
             ELSE /\ parser'.status = "failed"
                  /\ parser'.p.msg.msg = "Too many local variables in function."
                  /\ current(parser'.p).locals = current(parser.p).locals
       /\ Len(current(parser'.p).locals) <= 256
       /\ \A i \in 1..Len(current(parser'.p).locals) - 1 :
             resolve_local(current(parser'.p), ManyName(i)).slot = i
       /\ LocalOperands(current(parser'.p)) \subseteq 0..255]_vars

\* the local in slot 255 has been read behind 255 declarations
C20_Witness ==
    /\ parser.call = "named_variable"
    /\ parser.status = "declaring"
    /\ Len(current(parser.p).locals) = 256
    /\ current(parser.p).chunk.code = <<Op("GetLocal", 255, 0)>>


====
